---------------------------- MODULE Spec2Model ----------------------------
(***************************************************************************)
(* Model of vectorbt's signals accessor (vectorbt/signals/accessors.py).   *)
(*                                                                         *)
(* A signal object is a boolean matrix of T rows (time) and N columns,     *)
(* indexed from 0 as in the source: obj[i][col].  Every accessor method is *)
(* one action: it draws its arguments, runs the numba kernel the method    *)
(* delegates to and stores the returned matrix in `result`.                *)
(*                                                                         *)
(* The kernels of vectorbt.signals.nb and the helpers of                   *)
(* vectorbt.utils.reshape_fns are not part of the source tree at hand;     *)
(* they are written from the design document (sections 4.1 and 4.4) and    *)
(* agree with every docstring example of accessors.py.                     *)
(*                                                                         *)
(* Prices are fixed-point numbers in tenths and stop distances are         *)
(* fixed-point numbers in hundredths, so that thresholds are compared      *)
(* exactly; floating-point rounding is outside the model.                  *)
(***************************************************************************)
EXTENDS Integers, Sequences, FiniteSets, TLC

\* obj is the signal object, call the method call made on it and result what
\* the call returned; rng is the state of the random generator the process
\* keeps (numpy.random's own) and first_seeded the first seeded random call
\* with what it returned.
VARIABLES obj, call, result, rng, first_seeded

vars == <<obj, call, result, rng, first_seeded>>

\* Rows of a signal frame.
T == 3
\* Columns of a signal frame.
N == 2
\* Entry signals in a frame handed to the stop generators.
MaxEntries == 2

RowIdx == 0 .. (T - 1)
ColIdx == 0 .. (N - 1)

\* All boolean frames of shape (T, N): the objects the accessor accepts.
BoolFrames == [RowIdx -> [ColIdx -> BOOLEAN]]
\* All boolean series of length T.
BoolSeries == [RowIdx -> BOOLEAN]

\* An absent optional argument (None) is the empty tuple, a given one <<v>>.
None == <<>>
Some(v) == <<v>>
IsNone(o) == o = <<>>
Get(o) == o[1]

Max2(a, b) == IF a >= b THEN a ELSE b

-----------------------------------------------------------------------------
(* Helpers of vectorbt.utils.reshape_fns                                   *)

\* broadcast(frame, series): the series is repeated along the columns of frame.
broadcast(frame, other) ==
    [i \in DOMAIN frame |-> [col \in DOMAIN frame[i] |-> other[i]]]

\* The matrix formed by a tuple of columns, each a tuple over the rows: cell
\* [i][col] is element i of column col.
from_columns(nrows, cols) ==
    [i \in 0 .. (nrows - 1) |-> [col \in 0 .. (Len(cols) - 1) |-> cols[col + 1][i + 1]]]

NRows(a) == Cardinality(DOMAIN a)
NCols(a) == Cardinality(DOMAIN a[0])

\* wrap(a): the values with the object's own column labels.
wrap(self, a) == [values |-> a, columns |-> [col \in DOMAIN self[0] |-> col]]

-----------------------------------------------------------------------------
(* Ranker kernels (vectorbt.signals.nb)                                    *)

\* The loop of rank_nb over the rows of column col, entered at row i with the
\* running counter r and the flag started (a False was seen, or after_false
\* is off); the value is the column of ranks written from row i on.
RECURSIVE rank_loop(_, _, _, _, _, _, _, _)
rank_loop(a, reset_by, after_false, allow_gaps, col, i, r, started) ==
    IF i \notin DOMAIN a THEN <<>>
    ELSE LET r0 == IF ~IsNone(reset_by) /\ Get(reset_by)[i][col] THEN 0 ELSE r
             counted == a[i][col] /\ started
             r1 == IF counted THEN r0 + 1
                   ELSE IF ~a[i][col] /\ ~allow_gaps THEN 0
                   ELSE r0
         IN  <<IF counted THEN r1 ELSE 0>>
             \o rank_loop(a, reset_by, after_false, allow_gaps, col, i + 1, r1,
                          started \/ ~a[i][col])

\* The loop of rank_nb over the columns, from column col on.
RECURSIVE rank_columns(_, _, _, _, _)
rank_columns(a, reset_by, after_false, allow_gaps, col) ==
    IF col >= NCols(a) THEN <<>>
    ELSE <<rank_loop(a, reset_by, after_false, allow_gaps, col, 0, 0, ~after_false)>>
         \o rank_columns(a, reset_by, after_false, allow_gaps, col + 1)

rank_nb(a, reset_by, after_false, allow_gaps) ==
    from_columns(NRows(a), rank_columns(a, reset_by, after_false, allow_gaps, 0))

\* The loop of rank_partitions_nb over the rows of column col, entered at row
\* i: part is the index of the last partition counted, in_part says whether
\* row i-1 belonged to it.
RECURSIVE rank_partitions_loop(_, _, _, _, _, _, _, _)
rank_partitions_loop(a, reset_by, after_false, col, i, part, in_part, started) ==
    IF i \notin DOMAIN a THEN <<>>
    ELSE LET reset == ~IsNone(reset_by) /\ Get(reset_by)[i][col]
             part0 == IF reset THEN 0 ELSE part
             in0 == IF reset THEN FALSE ELSE in_part
             counted == a[i][col] /\ started
             part1 == IF counted /\ ~in0 THEN part0 + 1 ELSE part0
         IN  <<IF counted THEN part1 ELSE 0>>
             \o rank_partitions_loop(a, reset_by, after_false, col, i + 1, part1,
                                     counted, started \/ ~a[i][col])

\* The loop of rank_partitions_nb over the columns, from column col on.
RECURSIVE rank_partitions_columns(_, _, _, _)
rank_partitions_columns(a, reset_by, after_false, col) ==
    IF col >= NCols(a) THEN <<>>
    ELSE <<rank_partitions_loop(a, reset_by, after_false, col, 0, 0, FALSE, ~after_false)>>
         \o rank_partitions_columns(a, reset_by, after_false, col + 1)

rank_partitions_nb(a, reset_by, after_false) ==
    from_columns(NRows(a), rank_partitions_columns(a, reset_by, after_false, 0))

-----------------------------------------------------------------------------
(* Signals_Accessor.rank and Signals_Accessor.rank_partitions              *)

\* reset_by is broadcast against the object when it is given.
bcast_reset(self, reset_by) ==
    IF ~IsNone(reset_by) THEN Some(broadcast(self, Get(reset_by))) ELSE None

\* Faulty variants of rank: the partition kernel is called, a keyword argument
\* is not passed on (the kernel's default is used), reset_by is not passed on.
rank_calls_partitions(self, reset_by, after_false, allow_gaps) ==
    rank_partitions_nb(self, bcast_reset(self, reset_by), after_false)

rank_drops_allow_gaps(self, reset_by, after_false, allow_gaps) ==
    rank_nb(self, bcast_reset(self, reset_by), after_false, FALSE)

rank_drops_after_false(self, reset_by, after_false, allow_gaps) ==
    rank_nb(self, bcast_reset(self, reset_by), FALSE, allow_gaps)

rank_drops_reset_by(self, reset_by, after_false, allow_gaps) ==
    rank_nb(self, None, after_false, allow_gaps)

rank(self, reset_by, after_false, allow_gaps) ==
    rank_nb(self, bcast_reset(self, reset_by), after_false, allow_gaps)

\* Faulty variants of rank_partitions: the rank kernel is called, after_false
\* is not passed on.
rank_partitions_calls_rank(self, reset_by, after_false) ==
    rank_nb(self, bcast_reset(self, reset_by), after_false, FALSE)

rank_partitions_drops_after_false(self, reset_by, after_false) ==
    rank_partitions_nb(self, bcast_reset(self, reset_by), FALSE)

rank_partitions(self, reset_by, after_false) ==
    rank_partitions_nb(self, bcast_reset(self, reset_by), after_false)

-----------------------------------------------------------------------------
(* Stop kernels (vectorbt.signals.nb)                                      *)

\* Whether price p is at or beyond the stop threshold of reference price ref
\* and stop distance stop.  p and ref are in tenths, stop is in hundredths:
\*   loss, relative:    p <= ref * (1 - stop)      loss, absolute:    p <= ref - stop
\*   profit, relative:  p >= ref * (1 + stop)      profit, absolute:  p >= ref + stop
stop_hit(side, relative, p, ref, stop) ==
    IF side = "loss"
    THEN (IF relative THEN 100 * p <= ref * (100 - stop) ELSE 10 * p <= 10 * ref - stop)
    ELSE (IF relative THEN 100 * p >= ref * (100 + stop) ELSE 10 * p >= 10 * ref + stop)

\* The scan of one column for one configuration, entered at row i: seen says
\* whether an entry has occurred, anchor is the price at the last entry,
\* running_max the highest price since then, hit whether the span since the
\* last entry already produced an exit.  The value is the column of exits
\* written from row i on.
RECURSIVE stop_loop(_, _, _, _, _, _, _, _, _, _, _, _, _)
stop_loop(entries, ts, stop, side, trailing, relative, first, col, i, seen, anchor, running_max, hit) ==
    IF i \notin DOMAIN entries THEN <<>>
    ELSE LET is_entry == entries[i][col]
             seen1 == seen \/ is_entry
             anchor1 == IF is_entry THEN ts[i][col] ELSE anchor
             max0 == IF is_entry THEN ts[i][col] ELSE running_max
             max1 == IF trailing THEN Max2(max0, ts[i][col]) ELSE max0
             ref == IF trailing THEN max1 ELSE anchor1
             candidate == seen1 /\ stop_hit(side, relative, ts[i][col], ref, stop[i][col])
             hit0 == IF is_entry THEN FALSE ELSE hit
         IN  <<IF first THEN candidate /\ ~hit0 ELSE candidate>>
             \o stop_loop(entries, ts, stop, side, trailing, relative, first, col,
                          i + 1, seen1, anchor1, max1, hit0 \/ candidate)

\* The loop of the stop kernels over the output columns, from column j on:
\* output column j scans input column j % N under configuration j \div N.
RECURSIVE stop_columns(_, _, _, _, _, _, _, _)
stop_columns(entries, ts, stops, side, trailing, relative, first, j) ==
    IF j >= Cardinality(DOMAIN stops) * NCols(entries) THEN <<>>
    ELSE <<stop_loop(entries, ts, stops[j \div NCols(entries)], side, trailing, relative, first, j % NCols(entries), 0, FALSE, 0, 0, FALSE)>>
         \o stop_columns(entries, ts, stops, side, trailing, relative, first, j + 1)

\* K stacked exit matrices: configuration k fills columns k*N .. k*N+N-1.
generate_stops_nb(entries, ts, stops, side, trailing, relative, first) ==
    from_columns(NRows(entries), stop_columns(entries, ts, stops, side, trailing, relative, first, 0))

generate_stop_loss_nb(entries, ts, stops, trailing, relative, first) ==
    generate_stops_nb(entries, ts, stops, "loss", trailing, relative, first)

generate_take_profit_nb(entries, ts, stops, relative, first) ==
    generate_stops_nb(entries, ts, stops, "profit", FALSE, relative, first)

\* broadcast_to_array_of(stops, arr): one matrix of arr's shape per stop value.
broadcast_to_array_of(stops, arr) ==
    [k \in 0 .. (Len(stops) - 1) |->
        [i \in DOMAIN arr |-> [col \in DOMAIN arr[i] |-> stops[k + 1]]]]

\* combine_indexes(index_from_values(stops), columns): the label of output
\* column k*N + c is the pair (stop value of configuration k, label of c).
combine_indexes(stops, ncols) ==
    [j \in 0 .. (Len(stops) * ncols - 1) |-> <<stops[(j \div ncols) + 1], j % ncols>>]

-----------------------------------------------------------------------------
(* Signals_Accessor.generate_stop_loss and generate_take_profit            *)

\* The stop distances in ascending order (lists of one or two values).
sorted_stops(stops) ==
    IF Len(stops) = 2 /\ stops[1] > stops[2] THEN <<stops[2], stops[1]>> ELSE stops

\* Faulty variants of generate_stop_loss: relative, first or trailing is not
\* passed on (the kernel's default is used); the kernel is given the stops in
\* ascending order while the labels keep the order of the argument.
generate_stop_loss_drops_relative(self, ts, stops, trailing, relative, first) ==
    [values |-> generate_stop_loss_nb(self, broadcast(self, ts),
                    broadcast_to_array_of(stops, self), trailing, TRUE, first),
     columns |-> combine_indexes(stops, NCols(self))]

generate_stop_loss_drops_first(self, ts, stops, trailing, relative, first) ==
    [values |-> generate_stop_loss_nb(self, broadcast(self, ts),
                    broadcast_to_array_of(stops, self), trailing, relative, FALSE),
     columns |-> combine_indexes(stops, NCols(self))]

generate_stop_loss_drops_trailing(self, ts, stops, trailing, relative, first) ==
    [values |-> generate_stop_loss_nb(self, broadcast(self, ts),
                    broadcast_to_array_of(stops, self), FALSE, relative, first),
     columns |-> combine_indexes(stops, NCols(self))]

generate_stop_loss_sorts_stops(self, ts, stops, trailing, relative, first) ==
    [values |-> generate_stop_loss_nb(self, broadcast(self, ts),
                    broadcast_to_array_of(sorted_stops(stops), self),
                    trailing, relative, first),
     columns |-> combine_indexes(stops, NCols(self))]

generate_stop_loss(self, ts, stops, trailing, relative, first) ==
    LET entries == self
        ts2 == broadcast(entries, ts)
        stops3 == broadcast_to_array_of(stops, entries)
    IN  [values |-> generate_stop_loss_nb(entries, ts2, stops3, trailing, relative, first),
         columns |-> combine_indexes(stops, NCols(entries))]

generate_take_profit(self, ts, stops, relative, first) ==
    LET entries == self
        ts2 == broadcast(entries, ts)
        stops3 == broadcast_to_array_of(stops, entries)
    IN  [values |-> generate_take_profit_nb(entries, ts2, stops3, relative, first),
         columns |-> combine_indexes(stops, NCols(entries))]

-----------------------------------------------------------------------------
(* Range reducer kernels (vectorbt.signals.nb)                             *)

\* The map callbacks: distance_map_nb gives to_i - from_i, pair_map_nb a
\* number that identifies the pair (from_i, to_i).
apply_map(map_func_nb, col, from_i, to_i) ==
    IF map_func_nb = "distance_map_nb" THEN to_i - from_i
    ELSE from_i * (T + 1) + to_i

RECURSIVE map_spans(_, _, _)
map_spans(map_func_nb, col, spans) ==
    IF spans = <<>> THEN <<>>
    ELSE <<apply_map(map_func_nb, col, Head(spans)[1], Head(spans)[2])>>
         \o map_spans(map_func_nb, col, Tail(spans))

RECURSIVE SeqSum(_)
SeqSum(a) == IF a = <<>> THEN 0 ELSE Head(a) + SeqSum(Tail(a))

\* A number that identifies the sequence a: its elements, each plus one, as
\* the digits of a numeral whose base exceeds every mapped value.
RECURSIVE Digits(_)
Digits(a) ==
    IF a = <<>> THEN 0 ELSE (Head(a) + 1) + ((T + 2) * (T + 2)) * Digits(Tail(a))

\* The reduce callbacks: mean_reduce_nb gives the mean of the mapped values as
\* the fraction <<sum, count>> (<<0, 0>> is NaN, the mean of nothing),
\* digits_reduce_nb the number that identifies the sequence it was handed.
apply_reduce(reduce_func_nb, col, a) ==
    IF reduce_func_nb = "mean_reduce_nb" THEN <<SeqSum(a), Len(a)>>
    ELSE Digits(a)

\* The scan of map_reduce_between_nb over column col from row i on; prev is the
\* last True row seen (-1 for none).  The value is the sequence of the pairs
\* (from_i, to_i) handed to the map callback.
RECURSIVE between_loop(_, _, _, _)
between_loop(a, col, i, prev) ==
    IF i \notin DOMAIN a THEN <<>>
    ELSE IF a[i][col]
         THEN (IF prev >= 0 THEN << <<prev, i>> >> ELSE <<>>) \o between_loop(a, col, i + 1, i)
         ELSE between_loop(a, col, i + 1, prev)

map_reduce_between_nb(a, map_func_nb, reduce_func_nb) ==
    [col \in DOMAIN a[0] |->
        apply_reduce(reduce_func_nb, col, map_spans(map_func_nb, col, between_loop(a, col, 0, -1)))]

\* The first row j >= i of column col of b that is True, -1 when there is none.
RECURSIVE next_true(_, _, _)
next_true(b, col, i) ==
    IF i \notin DOMAIN b THEN -1
    ELSE IF b[i][col] THEN i ELSE next_true(b, col, i + 1)

\* The scan of map_reduce_between_two_nb over column col from row i on.
RECURSIVE between_two_loop(_, _, _, _)
between_two_loop(a, b, col, i) ==
    IF i \notin DOMAIN a THEN <<>>
    ELSE (IF a[i][col] /\ next_true(b, col, i + 1) >= 0
          THEN << <<i, next_true(b, col, i + 1)>> >> ELSE <<>>)
         \o between_two_loop(a, b, col, i + 1)

map_reduce_between_two_nb(a, b, map_func_nb, reduce_func_nb) ==
    [col \in DOMAIN a[0] |->
        apply_reduce(reduce_func_nb, col, map_spans(map_func_nb, col, between_two_loop(a, b, col, 0)))]

\* The scan of map_reduce_partitions_nb over column col from row i on; start is
\* the first row of the run of True cells being scanned (-1 outside a run).
RECURSIVE partitions_loop(_, _, _, _)
partitions_loop(a, col, i, start) ==
    IF i \notin DOMAIN a THEN (IF start >= 0 THEN << <<start, i>> >> ELSE <<>>)
    ELSE IF a[i][col]
         THEN partitions_loop(a, col, i + 1, IF start >= 0 THEN start ELSE i)
         ELSE (IF start >= 0 THEN << <<start, i>> >> ELSE <<>>) \o partitions_loop(a, col, i + 1, -1)

map_reduce_partitions_nb(a, map_func_nb, reduce_func_nb) ==
    [col \in DOMAIN a[0] |->
        apply_reduce(reduce_func_nb, col, map_spans(map_func_nb, col, partitions_loop(a, col, 0, -1)))]

-----------------------------------------------------------------------------
(* Signals_Accessor.map_reduce_between and map_reduce_partitions           *)

\* A failed checks.assert_* ends the call with an AssertionError.
AssertionError == [error |-> "AssertionError"]

\* wrap_reduced(result): one value per column under the object's column labels.
wrap_reduced(self, a) == [values |-> a, index |-> [col \in DOMAIN self[0] |-> col]]

map_reduce_between_calls_partitions(self, other, map_func_nb, reduce_func_nb) ==
    IF IsNone(map_func_nb) \/ IsNone(reduce_func_nb) THEN AssertionError
    ELSE IF IsNone(other)
    THEN wrap_reduced(self, map_reduce_partitions_nb(self, Get(map_func_nb), Get(reduce_func_nb)))
    ELSE wrap_reduced(self, map_reduce_between_two_nb(self, broadcast(self, Get(other)),
                                                      Get(map_func_nb), Get(reduce_func_nb)))

map_reduce_between_ignores_other(self, other, map_func_nb, reduce_func_nb) ==
    IF IsNone(map_func_nb) \/ IsNone(reduce_func_nb) THEN AssertionError
    ELSE wrap_reduced(self, map_reduce_between_nb(self, Get(map_func_nb), Get(reduce_func_nb)))

map_reduce_between(self, other, map_func_nb, reduce_func_nb) ==
    IF IsNone(map_func_nb) \/ IsNone(reduce_func_nb) THEN AssertionError
    ELSE IF IsNone(other)
    THEN wrap_reduced(self, map_reduce_between_nb(self, Get(map_func_nb), Get(reduce_func_nb)))
    ELSE wrap_reduced(self, map_reduce_between_two_nb(self, broadcast(self, Get(other)),
                                                      Get(map_func_nb), Get(reduce_func_nb)))

avg_distance(self) ==
    map_reduce_between(self, None, Some("distance_map_nb"), Some("mean_reduce_nb"))

avg_distance_to(self, other) ==
    map_reduce_between(self, Some(other), Some("distance_map_nb"), Some("mean_reduce_nb"))

map_reduce_partitions_calls_between(self, map_func_nb, reduce_func_nb) ==
    IF IsNone(map_func_nb) \/ IsNone(reduce_func_nb) THEN AssertionError
    ELSE wrap_reduced(self, map_reduce_between_nb(self, Get(map_func_nb), Get(reduce_func_nb)))

map_reduce_partitions(self, map_func_nb, reduce_func_nb) ==
    IF IsNone(map_func_nb) \/ IsNone(reduce_func_nb) THEN AssertionError
    ELSE wrap_reduced(self, map_reduce_partitions_nb(self, Get(map_func_nb), Get(reduce_func_nb)))

-----------------------------------------------------------------------------
(* Generator kernels (vectorbt.signals.nb)                                 *)

\* The choice callbacks, each answering with rows inside [from_i, to_i):
\* first_choice_nb the row from_i, fill_choice_nb every row of the range,
\* last_choice_nb the row to_i - 1, skip_choice_nb the row from_i + col and
\* no_choice_nb nothing.
apply_choice(choice_func_nb, col, from_i, to_i) ==
    IF choice_func_nb = "first_choice_nb" THEN {from_i} \cap (from_i .. (to_i - 1))
    ELSE IF choice_func_nb = "fill_choice_nb" THEN from_i .. (to_i - 1)
    ELSE IF choice_func_nb = "last_choice_nb" THEN {to_i - 1} \cap (from_i .. (to_i - 1))
    ELSE IF choice_func_nb = "skip_choice_nb" THEN {from_i + col} \cap (from_i .. (to_i - 1))
    ELSE {}

\* The rows of column col that the calls of a trace marked; a trace is a
\* sequence of calls [fn, from_i, to_i, idxs], fn being 1 or 2.
marked(trace, fns, i) == \E k \in 1 .. Len(trace) : trace[k].fn \in fns /\ i \in trace[k].idxs

\* The loop of generate_iteratively_nb over one column: at position pos the
\* callback number fn is due.  The value is the trace of the calls made.
RECURSIVE iteratively_loop(_, _, _, _, _, _)
iteratively_loop(nrows, choice_func1_nb, choice_func2_nb, col, pos, fn) ==
    IF pos >= nrows THEN <<>>
    ELSE LET idxs == apply_choice(IF fn = 1 THEN choice_func1_nb ELSE choice_func2_nb,
                                  col, pos, nrows)
         IN  <<[fn |-> fn, from_i |-> pos, to_i |-> nrows, idxs |-> idxs]>>
             \o (IF idxs = {} THEN <<>>
                 ELSE iteratively_loop(nrows, choice_func1_nb, choice_func2_nb, col,
                                       (CHOOSE x \in idxs : \A y \in idxs : y <= x) + 1, 3 - fn))

\* generate_iteratively_nb(shape, ...): the two matrices, and the calls made
\* per column.
generate_iteratively_nb(shape, choice_func1_nb, choice_func2_nb) ==
    LET calls == [col \in 0 .. (shape[2] - 1) |->
                     iteratively_loop(shape[1], choice_func1_nb, choice_func2_nb, col, 0, 1)]
    IN  [result1 |-> [i \in 0 .. (shape[1] - 1) |->
                         [col \in 0 .. (shape[2] - 1) |-> marked(calls[col], {1}, i)]],
         result2 |-> [i \in 0 .. (shape[1] - 1) |->
                         [col \in 0 .. (shape[2] - 1) |-> marked(calls[col], {2}, i)]],
         calls |-> calls]

\* The loop of generate_after_nb over the True rows of column col from row i
\* on: each True row opens the range from the row below it to the next True
\* row (the end of the column after the last one).
RECURSIVE after_loop(_, _, _, _)
after_loop(a, choice_func_nb, col, i) ==
    IF i \notin DOMAIN a THEN <<>>
    ELSE IF a[i][col]
         THEN LET to_i == IF next_true(a, col, i + 1) >= 0
                          THEN next_true(a, col, i + 1) ELSE NRows(a)
              IN  <<[fn |-> 1, from_i |-> i + 1, to_i |-> to_i,
                     idxs |-> apply_choice(choice_func_nb, col, i + 1, to_i)]>>
                  \o after_loop(a, choice_func_nb, col, i + 1)
         ELSE after_loop(a, choice_func_nb, col, i + 1)

generate_after_nb(a, choice_func_nb) ==
    LET calls == [col \in DOMAIN a[0] |-> after_loop(a, choice_func_nb, col, 0)]
    IN  [result |-> [i \in DOMAIN a |-> [col \in DOMAIN a[i] |-> marked(calls[col], {1}, i)]],
         calls |-> calls]

-----------------------------------------------------------------------------
(* Signals_Accessor.generate_iteratively and generate_after                *)

\* shape = (n,) stands for n rows in one column.
to_2d_shape(shape) == IF Len(shape) = 1 THEN <<shape[1], 1>> ELSE shape

generate_iteratively_swaps_choices(shape, choice_func1_nb, choice_func2_nb) ==
    LET out == generate_iteratively_nb(to_2d_shape(shape), choice_func2_nb, choice_func1_nb)
    IN  [entries |-> out.result1, exits |-> out.result2, calls |-> out.calls]

generate_iteratively(shape, choice_func1_nb, choice_func2_nb) ==
    LET out == generate_iteratively_nb(to_2d_shape(shape), choice_func1_nb, choice_func2_nb)
    IN  [entries |-> out.result1, exits |-> out.result2, calls |-> out.calls]

generate_after_echoes_input(self, choice_func_nb) ==
    LET out == generate_after_nb(self, choice_func_nb)
    IN  [values |-> [i \in DOMAIN self |-> [col \in DOMAIN self[i] |->
                        self[i][col] \/ out.result[i][col]]],
         columns |-> [col \in DOMAIN self[0] |-> col], calls |-> out.calls]

generate_after(self, choice_func_nb) ==
    LET out == generate_after_nb(self, choice_func_nb)
    IN  [values |-> out.result, columns |-> [col \in DOMAIN self[0] |-> col],
         calls |-> out.calls]

-----------------------------------------------------------------------------
(* Random generator kernels (vectorbt.signals.nb)                          *)

\* A pseudo-random generator: a state in 0 .. RngModulus - 1 that every draw
\* advances; seeding sets the state from the seed alone.  Every call of a
\* random kernel works on a generator of its own.
RngModulus == 16
RngStates == 0 .. (RngModulus - 1)
seed_state(seed) == seed % RngModulus
next_state(s) == (5 * s + 3) % RngModulus
\* The number below k that the state s yields.
draw(s, k) == s % k

Min2(a, b) == IF a <= b THEN a ELSE b

\* The index of the entry of the weights w that the number r falls on.
RECURSIVE pick(_, _, _)
pick(w, r, j) == IF r < w[j] THEN j ELSE pick(w, r - w[j], j + 1)

\* The count drawn from n_range: entry j with probability n_prob[j] over the
\* sum of n_prob, every entry alike when n_prob is None.
draw_count(n_range, n_prob, s) ==
    LET w == IF IsNone(n_prob) THEN [j \in 1 .. Len(n_range) |-> 1] ELSE Get(n_prob)
    IN  n_range[pick(w, draw(s, SeqSum(w)), 1)]

\* The most rows of a range of len rows that lie gap or more apart.
max_fit(len, gap) == IF len <= 0 THEN 0 ELSE (len + gap - 1) \div gap

\* k rows of [from_i, to_i), gap or more apart, drawn from top to bottom; each
\* row is drawn among those that leave room for the rows still to come.  The
\* value is <<rows, generator state>>.
RECURSIVE place(_, _, _, _, _)
place(from_i, to_i, k, gap, s) ==
    IF k = 0 THEN <<{}, s>>
    ELSE LET hi == to_i - 1 - (k - 1) * gap
             pos == from_i + draw(s, hi - from_i + 1)
             rest == place(pos + gap, to_i, k - 1, gap, next_state(s))
         IN  <<{pos} \cup rest[1], rest[2]>>

\* random_choice_func_nb: a count from n_range, then that many rows of the
\* range min_space + 1 or more apart, or as many as fit.  The value is
\* [n, idxs, rng].
random_choice(from_i, to_i, n_range, n_prob, min_space, s) ==
    LET n == draw_count(n_range, n_prob, s)
        gap == IF IsNone(min_space) THEN 1 ELSE Get(min_space) + 1
        placed == place(from_i, to_i, Min2(n, max_fit(to_i - from_i, gap)), gap, next_state(s))
    IN  [n |-> n, idxs |-> placed[1], rng |-> placed[2]]

\* The loop of generate_random_nb over the columns from column col on; the
\* value is <<the calls made, one per column, generator state>>.
RECURSIVE random_columns(_, _, _, _, _, _)
random_columns(shape, n_range, n_prob, min_space, col, s) ==
    IF col >= shape[2] THEN <<<<>>, s>>
    ELSE LET c == random_choice(0, shape[1], n_range, n_prob, min_space, s)
             rest == random_columns(shape, n_range, n_prob, min_space, col + 1, c.rng)
         IN  <<<<c>> \o rest[1], rest[2]>>

\* generate_random_nb: the call's generator is seeded from a given seed before
\* the first draw; without a seed it starts in the state handed over, which the
\* call takes from the entropy of the system.
generate_random_nb(shape, n_range, n_prob, min_space, seed, state) ==
    LET out == random_columns(shape, n_range, n_prob, min_space, 0,
                              IF IsNone(seed) THEN state ELSE seed_state(Get(seed)))
    IN  [result |-> [i \in 0 .. (shape[1] - 1) |->
                        [col \in 0 .. (shape[2] - 1) |-> i \in out[1][col + 1].idxs]],
         calls |-> out[1], rng |-> out[2]]

\* The loop of generate_random_after_nb over the True rows of column col from
\* row i on; the value is <<the calls made, generator state>>.
RECURSIVE random_after_loop(_, _, _, _, _, _, _)
random_after_loop(a, n_range, n_prob, min_space, col, i, s) ==
    IF i \notin DOMAIN a THEN <<<<>>, s>>
    ELSE IF a[i][col]
         THEN LET to_i == IF next_true(a, col, i + 1) >= 0
                          THEN next_true(a, col, i + 1) ELSE NRows(a)
                  c == random_choice(i + 1, to_i, n_range, n_prob, min_space, s)
                  rest == random_after_loop(a, n_range, n_prob, min_space, col, i + 1, c.rng)
              IN  <<<<c>> \o rest[1], rest[2]>>
         ELSE random_after_loop(a, n_range, n_prob, min_space, col, i + 1, s)

RECURSIVE random_after_columns(_, _, _, _, _, _)
random_after_columns(a, n_range, n_prob, min_space, col, s) ==
    IF col >= NCols(a) THEN <<<<>>, s>>
    ELSE LET c == random_after_loop(a, n_range, n_prob, min_space, col, 0, s)
             rest == random_after_columns(a, n_range, n_prob, min_space, col + 1, c[2])
         IN  <<<<c[1]>> \o rest[1], rest[2]>>

generate_random_after_nb(a, n_range, n_prob, min_space, seed, state) ==
    LET out == random_after_columns(a, n_range, n_prob, min_space, 0,
                                    IF IsNone(seed) THEN state ELSE seed_state(Get(seed)))
    IN  [result |-> [i \in DOMAIN a |-> [col \in DOMAIN a[i] |->
                        \E k \in 1 .. Len(out[1][col + 1]) : i \in out[1][col + 1][k].idxs]],
         calls |-> out[1], rng |-> out[2]]

-----------------------------------------------------------------------------
(* Signals_Accessor.generate_random and generate_random_after              *)

\* checks.assert_same_shape(n_range, n_prob)
same_shape(n_range, n_prob) == IsNone(n_prob) \/ Len(Get(n_prob)) = Len(n_range)

\* What a random call ends with: the returned object and the state its
\* generator is dropped in.
random_outcome(out, columns) ==
    [result |-> [values |-> out.result, columns |-> columns, calls |-> out.calls],
     rng |-> out.rng]

generate_random_drops_min_space(shape, n_range, n_prob, min_space, seed, state) ==
    IF ~same_shape(n_range, n_prob) THEN [result |-> AssertionError, rng |-> state]
    ELSE random_outcome(generate_random_nb(to_2d_shape(shape), n_range, n_prob, None, seed, state),
                        [col \in 0 .. (to_2d_shape(shape)[2] - 1) |-> col])

generate_random_drops_n_prob(shape, n_range, n_prob, min_space, seed, state) ==
    IF ~same_shape(n_range, n_prob) THEN [result |-> AssertionError, rng |-> state]
    ELSE random_outcome(generate_random_nb(to_2d_shape(shape), n_range, None, min_space, seed, state),
                        [col \in 0 .. (to_2d_shape(shape)[2] - 1) |-> col])

generate_random_drops_seed(shape, n_range, n_prob, min_space, seed, state) ==
    IF ~same_shape(n_range, n_prob) THEN [result |-> AssertionError, rng |-> state]
    ELSE random_outcome(generate_random_nb(to_2d_shape(shape), n_range, n_prob, min_space, None, state),
                        [col \in 0 .. (to_2d_shape(shape)[2] - 1) |-> col])

generate_random(shape, n_range, n_prob, min_space, seed, state) ==
    IF ~same_shape(n_range, n_prob) THEN [result |-> AssertionError, rng |-> state]
    ELSE random_outcome(generate_random_nb(to_2d_shape(shape), n_range, n_prob, min_space, seed, state),
                        [col \in 0 .. (to_2d_shape(shape)[2] - 1) |-> col])

generate_random_after(self, n_range, n_prob, min_space, seed, state) ==
    IF ~same_shape(n_range, n_prob) THEN [result |-> AssertionError, rng |-> state]
    ELSE random_outcome(generate_random_after_nb(self, n_range, n_prob, min_space, seed, state),
                        [col \in DOMAIN self[0] |-> col])

-----------------------------------------------------------------------------
(* Signals_Accessor.AND, OR and XOR                                        *)

\* numpy's elementwise logical_and, logical_or and logical_xor on two cells.
apply_combine(combine_func, x, y) ==
    IF combine_func = "logical_and" THEN x /\ y
    ELSE IF combine_func = "logical_or" THEN x \/ y
    ELSE x # y

\* combine_with_multiple without concat: the operands are folded into the
\* object from left to right, others[k] being the first operand still to come.
RECURSIVE combine_fold(_, _, _, _)
combine_fold(a, others, k, combine_func) ==
    IF k > Len(others) THEN a
    ELSE combine_fold([i \in DOMAIN a |-> [col \in DOMAIN a[i] |->
                          apply_combine(combine_func, a[i][col], broadcast(a, others[k])[i][col])]],
                      others, k + 1, combine_func)

\* combine_with_multiple: one matrix, or with concat one block of columns per
\* operand, block k holding the object combined with others[k] alone.
combine_with_multiple(self, others, combine_func, concat) ==
    IF concat
    THEN [values |-> [i \in DOMAIN self |-> [j \in 0 .. (Len(others) * NCols(self) - 1) |->
                         apply_combine(combine_func, self[i][j % NCols(self)],
                                       others[(j \div NCols(self)) + 1][i])]],
          columns |-> [j \in 0 .. (Len(others) * NCols(self) - 1) |->
                          <<(j \div NCols(self)) + 1, j % NCols(self)>>]]
    ELSE wrap(self, combine_fold(self, others, 1, combine_func))

AND_calls_logical_or(self, others, concat) ==
    combine_with_multiple(self, others, "logical_or", concat)

AND(self, others, concat) == combine_with_multiple(self, others, "logical_and", concat)

OR(self, others, concat) == combine_with_multiple(self, others, "logical_or", concat)

XOR(self, others, concat) == combine_with_multiple(self, others, "logical_xor", concat)

-----------------------------------------------------------------------------
(* State machine                                                           *)

\* Prices a series may hold (tenths: 1.8 and 2.0).
Prices == {18, 20}
PriceSeries == [RowIdx -> Prices]
\* The stops arguments: lists of stop distances (hundredths: 0.1 and 0.2).
StopLists == {<<10>>, <<10, 20>>, <<20, 10>>}

OptSeries == {None} \cup {Some(s) : s \in BoolSeries}

NoCall == [op |-> "none", reset_by |-> None, after_false |-> FALSE,
           allow_gaps |-> FALSE, ts |-> None, stops |-> <<>>,
           trailing |-> FALSE, relative |-> FALSE, first |-> FALSE]

Init ==
    /\ obj \in BoolFrames
    /\ call = NoCall
    /\ result = None
    /\ rng = 0
    /\ first_seeded = None

\* The stop generators are run on frames of at most MaxEntries entry signals.
NumSignals(frame) ==
    Cardinality({ic \in (DOMAIN frame) \X (DOMAIN frame[0]) : frame[ic[1]][ic[2]]})

InitStop ==
    /\ Init
    /\ NumSignals(obj) <= MaxEntries

Rank ==
    /\ call.op = "none"
    /\ \E reset_by \in OptSeries, after_false \in BOOLEAN, allow_gaps \in BOOLEAN :
        /\ call' = [NoCall EXCEPT !.op = "rank", !.reset_by = reset_by,
                                  !.after_false = after_false,
                                  !.allow_gaps = allow_gaps]
        /\ result' = Some(wrap(obj, rank(obj, reset_by, after_false, allow_gaps)))
        /\ UNCHANGED <<obj, rng, first_seeded>>

RankPartitions ==
    /\ call.op = "none"
    /\ \E reset_by \in OptSeries, after_false \in BOOLEAN :
        /\ call' = [NoCall EXCEPT !.op = "rank_partitions", !.reset_by = reset_by,
                                  !.after_false = after_false]
        /\ result' = Some(wrap(obj, rank_partitions(obj, reset_by, after_false)))
        /\ UNCHANGED <<obj, rng, first_seeded>>

GenerateStopLoss ==
    /\ call.op = "none"
    /\ \E ts \in PriceSeries, stops \in StopLists,
          trailing \in BOOLEAN, relative \in BOOLEAN, first \in BOOLEAN :
        /\ call' = [NoCall EXCEPT !.op = "generate_stop_loss", !.ts = Some(ts),
                                  !.stops = stops, !.trailing = trailing,
                                  !.relative = relative, !.first = first]
        /\ result' = Some(generate_stop_loss(obj, ts, stops, trailing, relative, first))
        /\ UNCHANGED <<obj, rng, first_seeded>>

GenerateTakeProfit ==
    /\ call.op = "none"
    /\ \E ts \in PriceSeries, stops \in StopLists,
          relative \in BOOLEAN, first \in BOOLEAN :
        /\ call' = [NoCall EXCEPT !.op = "generate_take_profit", !.ts = Some(ts),
                                  !.stops = stops, !.relative = relative,
                                  !.first = first]
        /\ result' = Some(generate_take_profit(obj, ts, stops, relative, first))
        /\ UNCHANGED <<obj, rng, first_seeded>>

\* The callbacks a caller may hand over; None is a callback left out.
MapFuncs == {None, Some("distance_map_nb"), Some("pair_map_nb")}
ReduceFuncs == {None, Some("mean_reduce_nb"), Some("digits_reduce_nb")}

MapReduceBetween ==
    /\ call.op = "none"
    /\ \E other \in OptSeries, map_func_nb \in MapFuncs, reduce_func_nb \in ReduceFuncs :
        /\ call' = [op |-> "map_reduce_between", other |-> other,
                    map_func_nb |-> map_func_nb, reduce_func_nb |-> reduce_func_nb]
        /\ result' = Some(map_reduce_between(obj, other, map_func_nb, reduce_func_nb))
        /\ UNCHANGED <<obj, rng, first_seeded>>

MapReducePartitions ==
    /\ call.op = "none"
    /\ \E map_func_nb \in MapFuncs, reduce_func_nb \in ReduceFuncs :
        /\ call' = [op |-> "map_reduce_partitions",
                    map_func_nb |-> map_func_nb, reduce_func_nb |-> reduce_func_nb]
        /\ result' = Some(map_reduce_partitions(obj, map_func_nb, reduce_func_nb))
        /\ UNCHANGED <<obj, rng, first_seeded>>

\* The choice callbacks handed to the generators and the shapes asked for.
ChoiceFuncs == {"first_choice_nb", "fill_choice_nb", "last_choice_nb",
                "skip_choice_nb", "no_choice_nb"}
Shapes == {<<T, N>>, <<T>>}

GenerateIteratively ==
    /\ call.op = "none"
    /\ \E shape \in Shapes, choice_func1_nb \in ChoiceFuncs, choice_func2_nb \in ChoiceFuncs :
        /\ call' = [op |-> "generate_iteratively", shape |-> shape,
                    choice_func1_nb |-> choice_func1_nb,
                    choice_func2_nb |-> choice_func2_nb]
        /\ result' = Some(generate_iteratively(shape, choice_func1_nb, choice_func2_nb))
        /\ UNCHANGED <<obj, rng, first_seeded>>

GenerateAfter ==
    /\ call.op = "none"
    /\ \E choice_func_nb \in ChoiceFuncs :
        /\ call' = [op |-> "generate_after", choice_func_nb |-> choice_func_nb]
        /\ result' = Some(generate_after(obj, choice_func_nb))
        /\ UNCHANGED <<obj, rng, first_seeded>>

\* The random generators are run in a process whose own generator, the one
\* numpy.random keeps for the process, is in any state.
ProcessStates == {0, 5}
\* The entropy of the system at a call: any state for a single call without a
\* seed, and two states for a seeded call, which has no use for it, and for
\* the calls of a sequence.
FewEntropies == {0, 7}
Entropies(seed) == IF IsNone(seed) THEN RngStates ELSE FewEntropies

InitRandom ==
    /\ obj \in BoolFrames
    /\ NumSignals(obj) <= MaxEntries
    /\ call = NoCall
    /\ result = None
    /\ rng \in ProcessStates
    /\ first_seeded = None

\* The (n_range, n_prob) arguments: counts with their weights (the last pair
\* is of unequal lengths), the min_space and the seed arguments.
CountArgs == {<<<<1, 2>>, None>>, <<<<3, 5>>, None>>, <<<<1, 3>>, Some(<<0, 1>>)>>,
              <<<<2, 1>>, Some(<<3, 7>>)>>, <<<<1, 2>>, Some(<<1>>)>>}
OptSpaces == {None, Some(0), Some(1)}
OptSeeds == {None, Some(1), Some(2)}
\* A later call may follow the first seeded call MaxLater times.
MaxLater == 2

\* One call of a random generator: the call and what it returned are noted,
\* the call's generator, started from the seed or else from the entropy of the
\* system, is dropped, the generator of the process is left alone, and the
\* first seeded call is remembered together with the number of calls made
\* after it and the number of those that were other calls.
RandomCall(op, n_range, n_prob, min_space, seed, entropies) ==
    \E entropy \in entropies :
    LET out == IF op = "generate_random"
               THEN generate_random(<<T, N>>, n_range, n_prob, min_space, seed, entropy)
               ELSE generate_random_after(obj, n_range, n_prob, min_space, seed, entropy)
        made == [op |-> op, n_range |-> n_range, n_prob |-> n_prob,
                 min_space |-> min_space, seed |-> seed]
    IN  /\ call' = made
        /\ result' = Some(out.result)
        /\ rng' = rng
        /\ first_seeded' =
               IF ~IsNone(first_seeded)
               THEN Some([Get(first_seeded) EXCEPT
                              !.later = @ + 1,
                              !.others = @ + IF made = Get(first_seeded).call THEN 0 ELSE 1])
               ELSE IF ~IsNone(seed)
               THEN Some([call |-> made, result |-> out.result, later |-> 0, others |-> 0])
               ELSE None
        /\ UNCHANGED obj

GenerateRandom ==
    /\ call.op = "none"
    /\ \E args \in CountArgs, min_space \in OptSpaces, seed \in OptSeeds :
        RandomCall("generate_random", args[1], args[2], min_space, seed, Entropies(seed))

GenerateRandomAfter ==
    /\ call.op = "none"
    /\ \E args \in CountArgs, min_space \in OptSpaces, seed \in OptSeeds :
        RandomCall("generate_random_after", args[1], args[2], min_space, seed, Entropies(seed))

\* Another call may be made until MaxLater calls followed the first seeded one.
MayCallAgain == IF IsNone(first_seeded) THEN TRUE ELSE Get(first_seeded).later < MaxLater

\* Random calls made one after another in one process.
GenerateRandomAgain ==
    /\ MayCallAgain
    /\ \E seed \in OptSeeds :
        RandomCall("generate_random", <<1, 2>>, None, None, seed, FewEntropies)

GenerateRandomAfterAgain ==
    /\ MayCallAgain
    /\ \E seed \in OptSeeds :
        RandomCall("generate_random_after", <<1, 2>>, None, None, seed, FewEntropies)

\* Signals_Accessor.first, nst and from_nst: the cells of the rank matrix that
\* satisfy a test, under the object's labels.
first_tests_nonzero(self, reset_by, after_false, allow_gaps) ==
    LET ranked == rank(self, reset_by, after_false, allow_gaps)
    IN  wrap(self, [i \in DOMAIN self |-> [col \in DOMAIN self[i] |-> ranked[i][col] >= 1]])

first(self, reset_by, after_false, allow_gaps) ==
    LET ranked == rank(self, reset_by, after_false, allow_gaps)
    IN  wrap(self, [i \in DOMAIN self |-> [col \in DOMAIN self[i] |-> ranked[i][col] = 1]])

nst(self, n, reset_by, after_false, allow_gaps) ==
    LET ranked == rank(self, reset_by, after_false, allow_gaps)
    IN  wrap(self, [i \in DOMAIN self |-> [col \in DOMAIN self[i] |-> ranked[i][col] = n]])

from_nst(self, n, reset_by, after_false, allow_gaps) ==
    LET ranked == rank(self, reset_by, after_false, allow_gaps)
    IN  wrap(self, [i \in DOMAIN self |-> [col \in DOMAIN self[i] |-> ranked[i][col] >= n]])

\* The operands handed to a combinator: up to two boolean series.
OtherLists == {<<>>} \cup {<<b>> : b \in BoolSeries}
                     \cup {<<b, c>> : b \in BoolSeries, c \in BoolSeries}

And ==
    /\ call.op = "none"
    /\ \E others \in OtherLists, concat \in BOOLEAN :
        /\ call' = [op |-> "AND", others |-> others, concat |-> concat]
        /\ result' = Some(AND(obj, others, concat))
        /\ UNCHANGED <<obj, rng, first_seeded>>

Or ==
    /\ call.op = "none"
    /\ \E others \in OtherLists, concat \in BOOLEAN :
        /\ call' = [op |-> "OR", others |-> others, concat |-> concat]
        /\ result' = Some(OR(obj, others, concat))
        /\ UNCHANGED <<obj, rng, first_seeded>>

Xor ==
    /\ call.op = "none"
    /\ \E others \in OtherLists, concat \in BOOLEAN :
        /\ call' = [op |-> "XOR", others |-> others, concat |-> concat]
        /\ result' = Some(XOR(obj, others, concat))
        /\ UNCHANGED <<obj, rng, first_seeded>>

\* The reset_by arguments handed to the derived predicates: none, or a reset
\* on the second row.
ResetArgs == {None, Some([i \in RowIdx |-> i = 1])}

First ==
    /\ call.op = "none"
    /\ \E reset_by \in ResetArgs, after_false \in BOOLEAN, allow_gaps \in BOOLEAN :
        /\ call' = [op |-> "first", n |-> 1, reset_by |-> reset_by,
                    after_false |-> after_false, allow_gaps |-> allow_gaps]
        /\ result' = Some(first(obj, reset_by, after_false, allow_gaps))
        /\ UNCHANGED <<obj, rng, first_seeded>>

Nst ==
    /\ call.op = "none"
    /\ \E n \in 0 .. T, reset_by \in ResetArgs, after_false \in BOOLEAN, allow_gaps \in BOOLEAN :
        /\ call' = [op |-> "nst", n |-> n, reset_by |-> reset_by,
                    after_false |-> after_false, allow_gaps |-> allow_gaps]
        /\ result' = Some(nst(obj, n, reset_by, after_false, allow_gaps))
        /\ UNCHANGED <<obj, rng, first_seeded>>

FromNst ==
    /\ call.op = "none"
    /\ \E n \in 0 .. T, reset_by \in ResetArgs, after_false \in BOOLEAN, allow_gaps \in BOOLEAN :
        /\ call' = [op |-> "from_nst", n |-> n, reset_by |-> reset_by,
                    after_false |-> after_false, allow_gaps |-> allow_gaps]
        /\ result' = Some(from_nst(obj, n, reset_by, after_false, allow_gaps))
        /\ UNCHANGED <<obj, rng, first_seeded>>

RankNext == Rank \/ RankPartitions

SpecRank == Init /\ [][RankNext]_vars

AvgDistance ==
    /\ call.op = "none"
    /\ call' = [op |-> "avg_distance"]
    /\ result' = Some(avg_distance(obj))
    /\ UNCHANGED <<obj, rng, first_seeded>>

AvgDistanceTo ==
    /\ call.op = "none"
    /\ \E other \in BoolSeries :
        /\ call' = [op |-> "avg_distance_to", other |-> Some(other)]
        /\ result' = Some(avg_distance_to(obj, other))
        /\ UNCHANGED <<obj, rng, first_seeded>>

ReduceNext == MapReduceBetween \/ MapReducePartitions \/ AvgDistance \/ AvgDistanceTo

SpecReduce == Init /\ [][ReduceNext]_vars

GenerateNext == GenerateIteratively \/ GenerateAfter

SpecGenerate == Init /\ [][GenerateNext]_vars

RandomNext == GenerateRandom \/ GenerateRandomAfter

SpecRandom == InitRandom /\ [][RandomNext]_vars

SeedNext == GenerateRandomAgain \/ GenerateRandomAfterAgain

SpecSeed == InitRandom /\ [][SeedNext]_vars

CombineNext == And \/ Or \/ Xor

SpecCombine == InitStop /\ [][CombineNext]_vars

DerivedNext == First \/ Nst \/ FromNst

SpecDerived == Init /\ [][DerivedNext]_vars

StopNext == GenerateStopLoss \/ GenerateTakeProfit

SpecStop == InitStop /\ [][StopNext]_vars

-----------------------------------------------------------------------------
(* Signals_Accessor.__init__ and the order of the statements of the range  *)
(* reducers' wrappers                                                      *)

\* A pandas object as the wrappers see it: its dtype and its cells, a matrix
\* of one or more columns.  Cells of dtype int64 are the integers 0 and 1.
Pandas(dtype, values) == [dtype |-> dtype, values |-> values]

\* checks.assert_dtype(arg, dtype) passes only when arg has that dtype.
assert_dtype(arg, dtype) == arg.dtype = dtype

Signals_Accessor_accepts_any_dtype(pd_obj) == [_obj |-> pd_obj]

\* Signals_Accessor.__init__: the accessor over a pandas object.
Signals_Accessor(pd_obj) ==
    IF ~assert_dtype(pd_obj, "bool") THEN AssertionError ELSE [_obj |-> pd_obj]

shape_of(a) == <<NRows(a), NCols(a)>>

\* reshape_fns.broadcast of two matrices of the same number of rows: a matrix
\* of one column is repeated along the columns of the other.
broadcast_to_columns(a, ncols) ==
    [i \in DOMAIN a |-> [col \in 0 .. (ncols - 1) |-> IF NCols(a) = 1 THEN a[i][0] ELSE a[i][col]]]

broadcast_2d(a, b) ==
    LET ncols == Max2(NCols(a), NCols(b))
    IN  <<broadcast_to_columns(a, ncols), broadcast_to_columns(b, ncols)>>

\* What a call does, in the order in which it does it: a check that passed, a
\* broadcast, a run of a kernel over the matrices handed to it (with the spans
\* handed to the map callback for every column it scans), and at the end the
\* value returned or the error raised.
Checked(check, arg) == [ev |-> "check", check |-> check, arg |-> arg]
Raised(check, arg) == [ev |-> "raise", check |-> check, arg |-> arg, error |-> AssertionError]
Broadcasted(a, b) == [ev |-> "broadcast", shapes |-> <<shape_of(a), shape_of(b)>>]
Returned(value) == [ev |-> "return", value |-> value]

\* The run of a kernel over matrix a (and b): one scan for every column of a.
kernel_run(fn, a, b) ==
    [ev |-> "kernel", fn |-> fn, a |-> a, b |-> b,
     map_calls |-> [col \in DOMAIN a[0] |->
        IF fn = "map_reduce_between_nb" THEN between_loop(a, col, 0, -1)
        ELSE IF fn = "map_reduce_between_two_nb" THEN between_two_loop(a, Get(b), col, 0)
        ELSE partitions_loop(a, col, 0, -1)]]

\* The four checks on the callbacks that open both wrappers: the events up to
\* the first check that fails.
callback_checks(map_func_nb, reduce_func_nb) ==
    IF IsNone(map_func_nb) THEN <<Raised("assert_not_none", "map_func_nb")>>
    ELSE IF IsNone(reduce_func_nb)
    THEN <<Checked("assert_not_none", "map_func_nb"),
           Raised("assert_not_none", "reduce_func_nb")>>
    ELSE <<Checked("assert_not_none", "map_func_nb"),
           Checked("assert_not_none", "reduce_func_nb"),
           Checked("assert_numba_func", "map_func_nb"),
           Checked("assert_numba_func", "reduce_func_nb")>>

\* A wrapper that hands the object to the kernel first and looks at the
\* callbacks only as the kernel reaches them, column by column.
map_reduce_between_steps_checks_late(self, other, map_func_nb, reduce_func_nb) ==
    IF IsNone(map_func_nb) \/ IsNone(reduce_func_nb)
    THEN <<kernel_run("map_reduce_between_nb", self, None)>>
         \o [k \in 1 .. NCols(self) |-> Raised("assert_not_none", "map_func_nb")]
    ELSE callback_checks(map_func_nb, reduce_func_nb)
         \o <<kernel_run("map_reduce_between_nb", self, None),
              Returned(wrap_reduced(self, map_reduce_between_nb(self, Get(map_func_nb),
                                                                 Get(reduce_func_nb))))>>

\* Signals_Accessor.map_reduce_between, statement by statement; self is the
\* matrix of the accessor's object, other a pandas object or None.
map_reduce_between_steps(self, other, map_func_nb, reduce_func_nb) ==
    IF IsNone(map_func_nb) \/ IsNone(reduce_func_nb)
    THEN callback_checks(map_func_nb, reduce_func_nb)
    ELSE callback_checks(map_func_nb, reduce_func_nb) \o
         (IF IsNone(other)
          THEN <<kernel_run("map_reduce_between_nb", self, None),
                 Returned(wrap_reduced(self, map_reduce_between_nb(self, Get(map_func_nb),
                                                                    Get(reduce_func_nb))))>>
          ELSE LET bc == broadcast_2d(self, Get(other).values)
               IN  <<Broadcasted(self, Get(other).values)>> \o
                   (IF ~assert_dtype(Get(other), "bool")
                    THEN <<Raised("assert_dtype", "other")>>
                    ELSE <<Checked("assert_dtype", "other"),
                           kernel_run("map_reduce_between_two_nb", self, Some(bc[2])),
                           Returned(wrap_reduced(self,
                               map_reduce_between_two_nb(self, bc[2], Get(map_func_nb),
                                                         Get(reduce_func_nb))))>>))

\* Signals_Accessor.map_reduce_partitions, statement by statement.
map_reduce_partitions_steps(self, map_func_nb, reduce_func_nb) ==
    IF IsNone(map_func_nb) \/ IsNone(reduce_func_nb)
    THEN callback_checks(map_func_nb, reduce_func_nb)
    ELSE callback_checks(map_func_nb, reduce_func_nb) \o
         <<kernel_run("map_reduce_partitions_nb", self, None),
           Returned(wrap_reduced(self, map_reduce_partitions_nb(self, Get(map_func_nb),
                                                                 Get(reduce_func_nb))))>>

\* What a call leaves its caller with: the value returned or the error raised.
outcome(steps) ==
    LET last == steps[Len(steps)]
    IN  IF last.ev = "return" THEN last.value ELSE last.error

\* The objects an accessor is asked for: boolean frames of N columns, boolean
\* objects of a single column, and objects of a single column of integers.
\* Objects of different dtypes are kept in sets of their own.
FramesOf(ncols, cells) == [RowIdx -> [0 .. (ncols - 1) -> cells]]

BoolObjects ==
    {Pandas("bool", v) : v \in {f \in BoolFrames : NumSignals(f) <= MaxEntries}}
    \cup {Pandas("bool", v) : v \in FramesOf(1, BOOLEAN)}

IntObjects == {Pandas("int64", v) : v \in FramesOf(1, {0, 1})}

\* The second operands handed to map_reduce_between: none, a boolean object
\* of one column or of N columns, or an object of one column of integers.
BoolOthers ==
    {None}
    \cup {Some(Pandas("bool", v)) : v \in FramesOf(1, BOOLEAN)}
    \cup {Some(Pandas("bool", v)) : v \in {f \in BoolFrames : NumSignals(f) <= 1}}

IntOthers == {Some(Pandas("int64", v)) : v \in FramesOf(1, {0, 1})}

InitPandas ==
    /\ \/ obj \in BoolObjects
       \/ obj \in IntObjects
    /\ call = NoCall
    /\ result = None
    /\ rng = 0
    /\ first_seeded = None

\* obj.vbt.signals: the accessor is built, or the construction fails.
NewAccessor ==
    /\ call.op = "none"
    /\ call' = [op |-> "__init__"]
    /\ result' = Some(Signals_Accessor(obj))
    /\ UNCHANGED <<obj, rng, first_seeded>>

\* A method is called on an accessor that was built.
HasAccessor == IF call.op = "__init__" THEN "_obj" \in DOMAIN Get(result) ELSE FALSE

MapReduceBetweenOn(others) ==
    /\ HasAccessor
    /\ \E other \in others, map_func_nb \in MapFuncs, reduce_func_nb \in ReduceFuncs :
        LET steps == map_reduce_between_steps(Get(result)._obj.values, other,
                                              map_func_nb, reduce_func_nb)
        IN  /\ call' = [op |-> "map_reduce_between", other |-> other,
                        map_func_nb |-> map_func_nb, reduce_func_nb |-> reduce_func_nb,
                        steps |-> steps]
            /\ result' = Some(outcome(steps))
            /\ UNCHANGED <<obj, rng, first_seeded>>

MapReduceBetweenSteps == MapReduceBetweenOn(BoolOthers) \/ MapReduceBetweenOn(IntOthers)

MapReducePartitionsSteps ==
    /\ HasAccessor
    /\ \E map_func_nb \in MapFuncs, reduce_func_nb \in ReduceFuncs :
        LET steps == map_reduce_partitions_steps(Get(result)._obj.values,
                                                 map_func_nb, reduce_func_nb)
        IN  /\ call' = [op |-> "map_reduce_partitions", other |-> None,
                        map_func_nb |-> map_func_nb, reduce_func_nb |-> reduce_func_nb,
                        steps |-> steps]
            /\ result' = Some(outcome(steps))
            /\ UNCHANGED <<obj, rng, first_seeded>>

AccessorNext == NewAccessor \/ MapReduceBetweenSteps \/ MapReducePartitionsSteps

SpecAccessor == InitPandas /\ [][AccessorNext]_vars

-----------------------------------------------------------------------------
(* Signals_Accessor.generate                                               *)

\* The elements of a set of rows in ascending order.
RECURSIVE ascending(_)
ascending(S) ==
    IF S = {} THEN <<>>
    ELSE LET least == CHOOSE x \in S : \A y \in S : x <= y
         IN  <<least>> \o ascending(S \ {least})

\* The array a choice callback returns.  The callbacks of apply_choice answer
\* inside [from_i, to_i); minus_one_choice_nb answers -1, end_choice_nb the
\* row to_i, past_choice_nb the rows from_i and to_i + 1, and twice_choice_nb
\* the row from_i two times.
choice_array(choice_func_nb, col, from_i, to_i) ==
    IF choice_func_nb = "minus_one_choice_nb" THEN <<-1>>
    ELSE IF choice_func_nb = "end_choice_nb" THEN <<to_i>>
    ELSE IF choice_func_nb = "past_choice_nb" THEN <<from_i, to_i + 1>>
    ELSE IF choice_func_nb = "twice_choice_nb" THEN <<from_i, from_i>>
    ELSE ascending(apply_choice(choice_func_nb, col, from_i, to_i))

\* An index array is valid for rows 0 .. nrows - 1 when every index is a row
\* and no index comes twice.
valid_indices(idxs, nrows) ==
    /\ \A k \in 1 .. Len(idxs) : idxs[k] \in 0 .. (nrows - 1)
    /\ \A k \in 1 .. Len(idxs), l \in 1 .. Len(idxs) : k # l => idxs[k] # idxs[l]

\* The error generate_nb ends in when a callback breaks the contract.
IndexError == [error |-> "IndexError"]

\* generate_nb(shape, choice_func_nb): per column one call
\* choice_func_nb(col, 0, shape[0]); the rows returned are set in a new matrix,
\* the result, unless an index array is not valid.
generate_nb(shape, choice_func_nb) ==
    LET idxs == [col \in 0 .. (shape[2] - 1) |-> choice_array(choice_func_nb, col, 0, shape[1])]
    IN  IF \E col \in DOMAIN idxs : ~valid_indices(idxs[col], shape[1])
        THEN IndexError
        ELSE [result |-> [i \in 0 .. (shape[1] - 1) |->
                             [col \in 0 .. (shape[2] - 1) |->
                                 \E k \in 1 .. Len(idxs[col]) : idxs[col][k] = i]]]

\* A wrapper that sets the rows itself, the way an array is indexed: a
\* negative index counts from the end and an index past the end is dropped.
generate_wraps_indices(shape, choice_func_nb) ==
    LET shape2 == to_2d_shape(shape)
        idxs == [col \in 0 .. (shape2[2] - 1) |-> choice_array(choice_func_nb, col, 0, shape2[1])]
    IN  [values |-> [i \in 0 .. (shape2[1] - 1) |->
                        [col \in 0 .. (shape2[2] - 1) |->
                            \E k \in 1 .. Len(idxs[col]) :
                                \/ idxs[col][k] = i
                                \/ idxs[col][k] + shape2[1] = i]]]

\* Signals_Accessor.generate(shape, choice_func_nb)
generate(shape, choice_func_nb) ==
    LET out == generate_nb(to_2d_shape(shape), choice_func_nb)
    IN  IF "result" \in DOMAIN out THEN [values |-> out.result] ELSE out

\* The callbacks handed to generate: those that keep the contract and those
\* that break it.
BadChoiceFuncs == {"minus_one_choice_nb", "end_choice_nb", "past_choice_nb", "twice_choice_nb"}

Generate ==
    /\ call.op = "none"
    /\ \E shape \in Shapes, choice_func_nb \in ChoiceFuncs \cup BadChoiceFuncs :
        /\ call' = [op |-> "generate", shape |-> shape, choice_func_nb |-> choice_func_nb]
        /\ result' = Some(generate(shape, choice_func_nb))
        /\ UNCHANGED <<obj, rng, first_seeded>>

SpecChoice == Init /\ [][Generate]_vars

-----------------------------------------------------------------------------
(* The arrays of the caller and the arrays a call works on                 *)

\* The caller's arrays: the signal frame, a boolean series (handed over as
\* reset_by, as other or as the operand of a combinator), a price series and
\* a list of stops.
MemoryOps ==
    {"rank", "rank_partitions", "map_reduce_between", "map_reduce_partitions",
     "generate_after", "generate_random_after", "generate_stop_loss",
     "generate_take_profit", "AND", "OR", "XOR"}

\* A wrapper that hands the kernel the object's own array to mark the new
\* signals in.
passes_object_as_output(op) ==
    IF op \in {"rank", "rank_partitions"} THEN [a |-> "signals", reset_by |-> "mask"]
    ELSE IF op = "map_reduce_between" THEN [a |-> "signals", b |-> "mask"]
    ELSE IF op = "map_reduce_partitions" THEN [a |-> "signals"]
    ELSE IF op \in {"generate_after", "generate_random_after"}
    THEN [a |-> "signals", out |-> "signals"]
    ELSE IF op \in {"generate_stop_loss", "generate_take_profit"}
    THEN [entries |-> "signals", ts |-> "ts", stops |-> "stops"]
    ELSE [self |-> "signals", others |-> "mask"]

\* The arrays of the caller that the wrapper of op hands to its kernel, by the
\* kernel's parameter: to_2d_array() and broadcast() give the kernel the
\* caller's cells themselves wherever no reshaping is needed.
passes(op) ==
    IF op \in {"rank", "rank_partitions"} THEN [a |-> "signals", reset_by |-> "mask"]
    ELSE IF op = "map_reduce_between" THEN [a |-> "signals", b |-> "mask"]
    ELSE IF op \in {"map_reduce_partitions", "generate_after", "generate_random_after"}
    THEN [a |-> "signals"]
    ELSE IF op \in {"generate_stop_loss", "generate_take_profit"}
    THEN [entries |-> "signals", ts |-> "ts", stops |-> "stops"]
    ELSE [self |-> "signals", others |-> "mask"]

\* The parameters a kernel writes to: only the output, which it allocates
\* itself unless it is handed one.
kernel_writes(op) == {"out"}

\* The array the value returned by op lives in: the kernel's output, new
\* unless the wrapper handed one of the caller's arrays over as the output.
returned_array(op) ==
    IF "out" \in DOMAIN passes(op) THEN passes(op)["out"] ELSE "new"

\* The caller's arrays that the kernel of op writes to.
written_arrays(op) ==
    {passes(op)[p] : p \in (DOMAIN passes(op)) \cap kernel_writes(op)}

\* The value each wrapper returns for the caller's arrays.
call_value(mem, op, map_func_nb) ==
    IF op = "rank" THEN wrap(mem.signals, rank(mem.signals, Some(mem.mask), FALSE, FALSE))
    ELSE IF op = "rank_partitions"
    THEN wrap(mem.signals, rank_partitions(mem.signals, Some(mem.mask), FALSE))
    ELSE IF op = "map_reduce_between"
    THEN map_reduce_between(mem.signals, Some(mem.mask), map_func_nb, Some("mean_reduce_nb"))
    ELSE IF op = "map_reduce_partitions"
    THEN map_reduce_partitions(mem.signals, map_func_nb, Some("mean_reduce_nb"))
    ELSE IF op = "generate_after" THEN generate_after(mem.signals, "fill_choice_nb")
    ELSE IF op = "generate_random_after"
    THEN generate_random_after(mem.signals, <<1, 2>>, None, None, Some(1), 0).result
    ELSE IF op = "generate_stop_loss"
    THEN generate_stop_loss(mem.signals, mem.ts, mem.stops, FALSE, TRUE, TRUE)
    ELSE IF op = "generate_take_profit"
    THEN generate_take_profit(mem.signals, mem.ts, mem.stops, TRUE, TRUE)
    ELSE IF op = "AND" THEN AND(mem.signals, <<mem.mask>>, FALSE)
    ELSE IF op = "OR" THEN OR(mem.signals, <<mem.mask>>, FALSE)
    ELSE XOR(mem.signals, <<mem.mask>>, FALSE)

\* The cells of the kernel's output behind the value a wrapper returns.
output_cells(value) == IF "values" \in DOMAIN value THEN value.values ELSE value

\* The caller's arrays after the call: an array the kernel wrote to holds the
\* cells of the kernel's output.
after_call(mem, op, value) ==
    [b \in DOMAIN mem |-> IF b \in written_arrays(op) THEN output_cells(value) ELSE mem[b]]

\* The prices of the caller: a rising and a falling series.
MemoryPrices == {[i \in RowIdx |-> 18 + 2 * (i % 2)], [i \in RowIdx |-> 20 - 2 * (i % 2)]}

InitMemory ==
    /\ obj \in [signals : {f \in BoolFrames : NumSignals(f) <= MaxEntries},
                mask : BoolSeries, ts : MemoryPrices, stops : {<<10>>, <<10, 20>>}]
    /\ call = NoCall
    /\ result = None
    /\ rng = 0
    /\ first_seeded = None

\* One call of a method on the caller's arrays.
MemoryCall ==
    /\ call.op = "none"
    /\ \E op \in MemoryOps, map_func_nb \in {None, Some("distance_map_nb")} :
        LET value == call_value(obj, op, map_func_nb)
        IN  /\ (~IsNone(map_func_nb) \/ op \in {"map_reduce_between", "map_reduce_partitions"})
            /\ call' = [op |-> op, map_func_nb |-> map_func_nb]
            /\ result' = Some([value |-> value, array |-> returned_array(op)])
            /\ obj' = after_call(obj, op, value)
            /\ UNCHANGED <<rng, first_seeded>>

SpecMemory == InitMemory /\ [][MemoryCall]_vars

-----------------------------------------------------------------------------
(* Two random calls in flight at once                                      *)

\* The calls in flight and the seeds they are made with.
Calls == {1, 2}
Seeds == {1, 2}
\* The most True cells of the frame generate_random_after is called on.
MaxInterleaved == 1
\* The generator the process keeps, as a cell next to the cells of the calls.
ProcessCell == 0

\* The arguments generate_random and generate_random_after hand to their
\* kernels besides the shape or the matrix.
random_kernel_args(n_range, n_prob, min_space, seed) ==
    [n_range |-> n_range, n_prob |-> n_prob, min_space |-> min_space, seed |-> seed]

generator_cell_of_the_process(p) == ProcessCell

\* The generator the kernel of call p seeds and draws from: one the call
\* creates for itself.
generator_cell(p) == p

\* The state a generator is created or seeded in.
new_generator(seed, entropy) == IF IsNone(seed) THEN entropy ELSE seed_state(Get(seed))

\* One column of the loop of a random kernel on the generator state s: the
\* rows set in the column and the state the generator is left in.
column_draw(op, a, args, col, s) ==
    IF op = "generate_random"
    THEN LET c == random_choice(0, T, args.n_range, args.n_prob, args.min_space, s)
         IN  <<c.idxs, c.rng>>
    ELSE LET c == random_after_loop(a, args.n_range, args.n_prob, args.min_space, col, 0, s)
         IN  <<UNION {c[1][k].idxs : k \in 1 .. Len(c[1])}, c[2]>>

NotStarted == [pc |-> "idle"]

\* No call is in flight; the generator of the process is in any state, which
\* is noted.
InitInterleave ==
    /\ obj \in BoolFrames
    /\ NumSignals(obj) <= MaxInterleaved
    /\ rng \in ProcessStates
    /\ call = [op |-> "interleaved", rng0 |-> rng, gens |-> [p \in Calls |-> 0],
               runs |-> [p \in Calls |-> NotStarted]]
    /\ result = [p \in Calls |-> None]
    /\ first_seeded = None

Running(p) == call.runs[p].pc = "running"

\* The state of the generator in a cell, and the cells after the generator in
\* a cell is put in state s.
generator_state(cell) == IF cell = ProcessCell THEN rng ELSE call.gens[cell]
generators_after(cell, s) ==
    IF cell = ProcessCell THEN call.gens ELSE [call.gens EXCEPT ![cell] = s]
process_after(cell, s) == IF cell = ProcessCell THEN s ELSE rng

\* Call p is made: the wrapper hands its arguments to the kernel, which puts
\* its generator in its first state.
Enter(p) ==
    /\ call.runs[p].pc = "idle"
    /\ \E op \in {"generate_random", "generate_random_after"}, seed \in Seeds,
          entropy \in FewEntropies :
        LET args == random_kernel_args(<<1, 2>>, None, None, Some(seed))
            s == new_generator(args.seed, entropy)
        IN  /\ call' = [call EXCEPT !.gens = generators_after(generator_cell(p), s),
                                    !.runs[p] = [pc |-> "running", op |-> op, seed |-> seed,
                                                 args |-> args, col |-> 0, cols |-> <<>>,
                                                 overlapped |-> FALSE]]
            /\ rng' = process_after(generator_cell(p), s)
    /\ UNCHANGED <<obj, result, first_seeded>>

\* The kernel of call p fills its next column, drawing from its generator;
\* the step is noted as overlapped when another call is running.
Column(p) ==
    /\ Running(p)
    /\ call.runs[p].col < N
    /\ LET run == call.runs[p]
           d == column_draw(run.op, obj, run.args, run.col, generator_state(generator_cell(p)))
       IN  /\ call' = [call EXCEPT !.gens = generators_after(generator_cell(p), d[2]),
                                   !.runs[p] = [run EXCEPT !.col = @ + 1,
                                                           !.cols = Append(@, d[1]),
                                                           !.overlapped = @ \/ \E q \in Calls \ {p} : Running(q)]]
           /\ rng' = process_after(generator_cell(p), d[2])
    /\ UNCHANGED <<obj, result, first_seeded>>

\* Call p returns the matrix of its columns.
Return(p) ==
    /\ Running(p)
    /\ call.runs[p].col = N
    /\ call' = [call EXCEPT !.runs[p].pc = "done"]
    /\ result' = [result EXCEPT ![p] =
                     Some([values |-> [i \in RowIdx |-> [col \in ColIdx |->
                                          i \in call.runs[p].cols[col + 1]]]])]
    /\ UNCHANGED <<obj, rng, first_seeded>>

InterleaveNext == \E p \in Calls : Enter(p) \/ Column(p) \/ Return(p)

SpecInterleave == InitInterleave /\ [][InterleaveNext]_vars

-----------------------------------------------------------------------------
(* Signals_Accessor.rank reset by a frame                                  *)

\* The elementwise NOT of a frame (~signals).
invert(frame) == [i \in DOMAIN frame |-> [col \in DOMAIN frame[i] |-> ~frame[i][col]]]

\* A frame of the shape of frame with every cell v.
full_like(frame, v) == [i \in DOMAIN frame |-> [col \in DOMAIN frame[i] |-> v]]

rank_by_frame_drops_reset_by(self, reset_by, after_false, allow_gaps) ==
    rank_nb(self, None, after_false, allow_gaps)

\* rank with reset_by None or a frame: a given reset_by is broadcast against
\* the object and the kernel runs on the broadcast object.
rank_by_frame(self, reset_by, after_false, allow_gaps) ==
    IF IsNone(reset_by) THEN rank_nb(self, None, after_false, allow_gaps)
    ELSE LET bc == broadcast_2d(self, Get(reset_by))
         IN  rank_nb(bc[1], Some(bc[2]), after_false, allow_gaps)

\* The frames rank is reset by: the inverted object, the object itself, and
\* the frames that reset on every row and on no row.
ResetFrames(frame) ==
    {invert(frame), frame, full_like(frame, TRUE), full_like(frame, FALSE)}

RankByFrame ==
    /\ call.op = "none"
    /\ \E reset_by \in {None} \cup {Some(f) : f \in ResetFrames(obj)},
          after_false \in BOOLEAN, allow_gaps \in BOOLEAN :
        /\ call' = [NoCall EXCEPT !.op = "rank", !.reset_by = reset_by,
                                  !.after_false = after_false,
                                  !.allow_gaps = allow_gaps]
        /\ result' = Some(wrap(obj, rank_by_frame(obj, reset_by, after_false, allow_gaps)))
        /\ UNCHANGED <<obj, rng, first_seeded>>

SpecRankByFrame == Init /\ [][RankByFrame]_vars

-----------------------------------------------------------------------------
(* generate_iteratively, call by call                                      *)

next_pos_stays_on_last(idxs) == CHOOSE x \in idxs : \A y \in idxs : y <= x

\* The position after a call that returned the rows idxs: one past the last
\* of them.
next_pos(idxs) == (CHOOSE x \in idxs : \A y \in idxs : y <= x) + 1

\* generate_iteratively has checked its callbacks and shape and the kernel is
\* at the top of its loop: column 0, position 0, choice_func1_nb due.  trace
\* holds the calls made in the column at hand, calls the traces of the columns
\* that ended.
InitIteratively ==
    /\ obj = [i \in RowIdx |-> [col \in ColIdx |-> FALSE]]
    /\ \E shape \in Shapes, choice_func1_nb \in ChoiceFuncs, choice_func2_nb \in ChoiceFuncs :
        call = [op |-> "generate_iteratively_nb", shape |-> to_2d_shape(shape),
                choice_func1_nb |-> choice_func1_nb, choice_func2_nb |-> choice_func2_nb,
                pc |-> "loop", col |-> 0, pos |-> 0, fn |-> 1, trace |-> <<>>,
                calls |-> <<>>]
    /\ result = None
    /\ rng = 0
    /\ first_seeded = None

InColumn ==
    /\ call.op = "generate_iteratively_nb"
    /\ call.pc = "loop"
    /\ call.col < call.shape[2]

\* The call that is due in the column at hand.
due_call ==
    [fn |-> call.fn, from_i |-> call.pos, to_i |-> call.shape[1],
     idxs |-> apply_choice(IF call.fn = 1 THEN call.choice_func1_nb ELSE call.choice_func2_nb,
                           call.col, call.pos, call.shape[1])]

\* The kernel after the column at hand ended with the calls trace.
next_column(trace) ==
    [call EXCEPT !.calls = Append(@, trace), !.col = @ + 1, !.pos = 0, !.fn = 1,
                 !.trace = <<>>]

\* The callback that is due returns rows: they are marked, the position moves
\* past them and the other callback is due.
ChoiceIndices ==
    /\ InColumn
    /\ call.pos < call.shape[1]
    /\ Len(call.trace) <= call.shape[1]
    /\ due_call.idxs # {}
    /\ call' = [call EXCEPT !.trace = Append(@, due_call), !.pos = next_pos(due_call.idxs),
                            !.fn = 3 - @]
    /\ UNCHANGED <<obj, result, rng, first_seeded>>

\* The callback that is due returns no row: the column ends.
ChoiceNothing ==
    /\ InColumn
    /\ call.pos < call.shape[1]
    /\ due_call.idxs = {}
    /\ call' = next_column(Append(call.trace, due_call))
    /\ UNCHANGED <<obj, result, rng, first_seeded>>

\* The position is past the last row: the column ends.
ColumnEnd ==
    /\ InColumn
    /\ call.pos >= call.shape[1]
    /\ call' = next_column(call.trace)
    /\ UNCHANGED <<obj, result, rng, first_seeded>>

\* Every column ended: the two matrices are returned.
ReturnIteratively ==
    /\ call.op = "generate_iteratively_nb"
    /\ call.pc = "loop"
    /\ call.col = call.shape[2]
    /\ call' = [call EXCEPT !.pc = "returned"]
    /\ result' = Some([entries |-> [i \in 0 .. (call.shape[1] - 1) |->
                                      [col \in 0 .. (call.shape[2] - 1) |->
                                          marked(call.calls[col + 1], {1}, i)]],
                       exits |-> [i \in 0 .. (call.shape[1] - 1) |->
                                    [col \in 0 .. (call.shape[2] - 1) |->
                                        marked(call.calls[col + 1], {2}, i)]]])
    /\ UNCHANGED <<obj, rng, first_seeded>>

IterativelyNext == ChoiceIndices \/ ChoiceNothing \/ ColumnEnd \/ ReturnIteratively

\* The kernel is sequential code that keeps running until it returns.
SpecIteratively ==
    InitIteratively /\ [][IterativelyNext]_vars /\ WF_vars(IterativelyNext)

-----------------------------------------------------------------------------
(* MyData and Data.update (tests/test_data.py)                             *)

\* The symbols data is fetched for, the most rows asked of an update and the
\* most updates made one after another.
Symbols == {0, 1}
MaxFetch == 2
MaxUpdates == 3

\* The data of a symbol is the sequence of its rows, each an index (a day
\* counted from the start date) with the cells of the row.  A shape is <<n>>
\* or <<n, columns>>.
\* MyData.fetch_symbol: row i holds 'symbol_i' (shape of one dimension) or
\* 'symbol_col_i' in column col, with '_u' at its end on an update, and has
\* the index start_date + i.
fetch_cell(symbol, col, i, is_update) ==
    ToString(symbol) \o "_" \o (IF col < 0 THEN "" ELSE ToString(col) \o "_")
    \o ToString(i) \o (IF is_update THEN "_u" ELSE "")

fetch_symbol(symbol, shape, start_date, is_update) ==
    [k \in 1 .. shape[1] |->
        [index |-> start_date + (k - 1),
         row |-> IF Len(shape) = 1 THEN <<fetch_cell(symbol, -1, k - 1, is_update)>>
                 ELSE [c \in 1 .. shape[2] |-> fetch_cell(symbol, c - 1, k - 1, is_update)]]]

\* Data.last_index: the index of the last row of every symbol.
last_index(self) == [s \in DOMAIN self.data |-> self.data[s][Len(self.data[s])].index]

update_symbol_starts_after_last(self, symbol, n) ==
    LET shape == self.fetch_kwargs.shape
        new_shape == IF Len(shape) > 1 THEN <<n, shape[2]>> ELSE <<n>>
    IN  fetch_symbol(symbol, new_shape, last_index(self)[symbol] + 1, TRUE)

\* MyData.update_symbol: n rows of the fetch shape, fetched from the last
\* index of the symbol on.
update_symbol(self, symbol, n) ==
    LET shape == self.fetch_kwargs.shape
        new_shape == IF Len(shape) > 1 THEN <<n, shape[2]>> ELSE <<n>>
    IN  fetch_symbol(symbol, new_shape, last_index(self)[symbol], TRUE)

\* The rows of old whose index no row of new has, then the rows of new.
RECURSIVE keep_older(_, _)
keep_older(old, new) ==
    IF old = <<>> THEN <<>>
    ELSE (IF \E k \in 1 .. Len(new) : new[k].index = old[1].index THEN <<>> ELSE <<old[1]>>)
         \o keep_older(Tail(old), new)

merge_rows(old, new) == keep_older(old, new) \o new

\* MyData.fetch(symbols, shape=shape): a data object.
fetch(symbols, shape) ==
    [data |-> [s \in symbols |-> fetch_symbol(s, shape, 0, FALSE)],
     fetch_kwargs |-> [shape |-> shape]]

\* Data.update(n=n): a data object in which every symbol has the rows of
\* update_symbol merged into its own by index.
Data_update(self, n) ==
    [self EXCEPT !.data = [s \in DOMAIN self.data |->
                              merge_rows(self.data[s], update_symbol(self, s, n))]]

DataShapes == {<<l>> : l \in 1 .. T} \cup {<<l, N>> : l \in 1 .. T}

\* data = MyData.fetch(...): the caller holds a data object.
InitData ==
    /\ \E symbols \in (SUBSET Symbols) \ {{}}, shape \in DataShapes :
        obj = fetch(symbols, shape)
    /\ call = [op |-> "fetch", updates |-> 0]
    /\ result = None
    /\ rng = 0
    /\ first_seeded = None

\* data.update(n=n): the caller gets the updated data object back.
UpdateData ==
    /\ call.op \in {"fetch", "rebind"}
    /\ \E n \in 0 .. MaxFetch :
        /\ call' = [op |-> "update", n |-> n, self |-> obj, updates |-> call.updates]
        /\ result' = Some(Data_update(obj, n))
    /\ UNCHANGED <<obj, rng, first_seeded>>

\* data = data.update(...): the caller keeps the object it got back.
RebindData ==
    /\ call.op = "update"
    /\ call.updates < MaxUpdates
    /\ obj' = Get(result)
    /\ call' = [op |-> "rebind", updates |-> call.updates + 1]
    /\ result' = None
    /\ UNCHANGED <<rng, first_seeded>>

DataNext == UpdateData \/ RebindData

SpecData == InitData /\ [][DataNext]_vars

-----------------------------------------------------------------------------
(* DataUpdater (tests/test_data.py)                                        *)

\* The call of update at which the updater of test_update_every is cancelled.
CancelAt == 5

\* vbt.DataUpdater(data): the updater holds the data and a config of it.
DataUpdater(data) == [data |-> data, config |-> [data |-> data]]

\* vbt.DataUpdater.update(): the data is updated and the config with it.
DataUpdater_update(self) ==
    LET data == Data_update(self.data, 1)
    IN  [self EXCEPT !.data = data, !.config.data = data]

update_skips_super_update(self, kwargs) ==
    LET count == kwargs.call_count + 1
    IN  [self |-> self,
         kwargs |-> [kwargs EXCEPT !.call_count = count],
         raised |-> IF count = CancelAt THEN Some("CancelledError") ELSE None]

\* The update of the DataUpdater subclass of test_update_every: the updater
\* is updated, the call is counted, and call number CancelAt raises
\* CancelledError.
update(self, kwargs) ==
    LET count == kwargs.call_count + 1
    IN  [self |-> DataUpdater_update(self),
         kwargs |-> [kwargs EXCEPT !.call_count = count],
         raised |-> IF count = CancelAt THEN Some("CancelledError") ELSE None]

\* updater = DataUpdater(data); updater.update_every(kwargs=kwargs) is entered
\* with call_count 0: update is scheduled.
InitUpdater ==
    /\ \E symbols \in (SUBSET Symbols) \ {{}}, shape \in DataShapes :
        /\ obj = DataUpdater(fetch(symbols, shape))
        /\ call = [op |-> "update_every", pc |-> "scheduled", kwargs |-> [call_count |-> 0],
                   data |-> fetch(symbols, shape), raised |-> None]
    /\ result = None
    /\ rng = 0
    /\ first_seeded = None

\* update_every runs the scheduled update; an exception it raises is in
\* flight.
RunUpdate ==
    /\ call.op = "update_every"
    /\ call.pc = "scheduled"
    /\ LET out == update(obj, call.kwargs)
       IN  /\ obj' = out.self
           /\ call' = [call EXCEPT !.kwargs = out.kwargs, !.raised = out.raised,
                                   !.pc = IF IsNone(out.raised) THEN "scheduled" ELSE "raised"]
    /\ UNCHANGED <<result, rng, first_seeded>>

\* update_every takes a CancelledError as the end of its loop and returns.
StopOnCancelled ==
    /\ call.op = "update_every"
    /\ call.pc = "raised"
    /\ call' = [call EXCEPT !.pc = "returned"]
    /\ result' = IF call.raised = Some("CancelledError") THEN Some([returned |-> "None"])
                 ELSE Some([error |-> Get(call.raised)])
    /\ UNCHANGED <<obj, rng, first_seeded>>

UpdaterNext == RunUpdate \/ StopOnCancelled

SpecUpdater == InitUpdater /\ [][UpdaterNext]_vars

-----------------------------------------------------------------------------
(* Properties of the ranker                                                *)

\* The matrix a finished call returned.
Res == Get(result).values

\* Row s opens a maximal run of True cells of column c.
IsRunStart(m, s, c) == m[s][c] /\ (s = 0 \/ ~m[s - 1][c])
\* The first row of the maximal run of True cells that holds the True cell (t, c).
RunStart(m, t, c) == CHOOSE s \in 0 .. t : \A u \in s .. t : IsRunStart(m, s, c) /\ m[u][c]
\* The number of True cells of column c in rows from .. t.
TrueCount(m, from, t, c) == Cardinality({s \in from .. t : m[s][c]})
\* The latest row <= t on which the reset series is True, row 0 when there is none.
LastReset(r, t) ==
    IF \E s \in 0 .. t : r[s] THEN CHOOSE s \in 0 .. t : r[s] /\ \A u \in (s + 1) .. t : ~r[u]
    ELSE 0
SetMax(S) == CHOOSE x \in S : \A y \in S : y <= x

RankCall(after_false, allow_gaps) ==
    /\ call.op = "rank"
    /\ call.after_false = after_false
    /\ call.allow_gaps = allow_gaps

\* C1: rank with default flags gives a False cell 0 and a True cell its 1-based
\* position inside the maximal run of True cells of its column that holds it.
C1_RankPositionInRun ==
    (RankCall(FALSE, FALSE) /\ IsNone(call.reset_by)) =>
        \A t \in RowIdx, c \in ColIdx :
            Res[t][c] = IF obj[t][c] THEN t - RunStart(obj, t, c) + 1 ELSE 0

\* A default rank call on a frame whose column 0 is [F, T, T, ...]: ranks 0, 1, 2.
C1_Witness ==
    /\ RankCall(FALSE, FALSE) /\ IsNone(call.reset_by)
    /\ ~obj[0][0] /\ obj[1][0] /\ obj[2][0]
    /\ Res[0][0] = 0 /\ Res[1][0] = 1 /\ Res[2][0] = 2

\* C2: with allow_gaps=True (no reset_by, after_false off) the k-th True cell of
\* a column gets rank k whatever lies between, and a False cell gets 0.
C2_RankAllowGaps ==
    (RankCall(FALSE, TRUE) /\ IsNone(call.reset_by)) =>
        \A t \in RowIdx, c \in ColIdx :
            Res[t][c] = IF obj[t][c] THEN TrueCount(obj, 0, t, c) ELSE 0

\* An allow_gaps call on a frame whose column 0 is [T, F, T, ...]: ranks 1, 0, 2.
C2_Witness ==
    /\ RankCall(FALSE, TRUE) /\ IsNone(call.reset_by)
    /\ obj[0][0] /\ ~obj[1][0] /\ obj[2][0]
    /\ Res[0][0] = 1 /\ Res[1][0] = 0 /\ Res[2][0] = 2

\* C3: with after_false=True (no gaps, no reset_by) a cell above the first False
\* cell of its column gets 0 and a cell at or below it gets what rank with
\* default flags gives it; a column without a False cell is all zero.
C3_RankAfterFalse ==
    (RankCall(TRUE, FALSE) /\ IsNone(call.reset_by)) =>
        LET default == rank(obj, None, FALSE, FALSE)
        IN  \A t \in RowIdx, c \in ColIdx :
                Res[t][c] = IF \E s \in 0 .. t : ~obj[s][c] THEN default[t][c] ELSE 0

\* An after_false call on a frame whose column 0 is [T, F, T, ...]: ranks 0, 0, 1.
C3_Witness ==
    /\ RankCall(TRUE, FALSE) /\ IsNone(call.reset_by)
    /\ obj[0][0] /\ ~obj[1][0] /\ obj[2][0]
    /\ Res[0][0] = 0 /\ Res[1][0] = 0 /\ Res[2][0] = 1

\* C4: with reset_by given (after_false off) the counter is set to 0 on a reset
\* row before the cell of that row is ranked, with and without allow_gaps: a
\* True cell on a reset row gets 1; with allow_gaps a True cell gets the number
\* of True cells from the latest reset row (the top when there is none) to
\* itself; without, its position in the part of its run that starts there.
C4_RankResetBy ==
    (call.op = "rank" /\ ~call.after_false /\ ~IsNone(call.reset_by)) =>
        LET r == Get(call.reset_by)
        IN  \A t \in RowIdx, c \in ColIdx :
                /\ ~obj[t][c] => Res[t][c] = 0
                /\ (obj[t][c] /\ r[t]) => Res[t][c] = 1
                /\ (obj[t][c] /\ call.allow_gaps) =>
                       Res[t][c] = TrueCount(obj, LastReset(r, t), t, c)
                /\ (obj[t][c] /\ ~call.allow_gaps) =>
                       Res[t][c] = t - SetMax({RunStart(obj, t, c), LastReset(r, t)}) + 1

\* An allow_gaps call with reset_by = [F, T, F, ...] on a frame whose column 0 is
\* all True: the reset row restarts the count, ranks 1, 1, 2.
C4_Witness ==
    /\ RankCall(FALSE, TRUE) /\ ~IsNone(call.reset_by)
    /\ ~Get(call.reset_by)[0] /\ Get(call.reset_by)[1] /\ ~Get(call.reset_by)[2]
    /\ obj[0][0] /\ obj[1][0] /\ obj[2][0]
    /\ Res[0][0] = 1 /\ Res[1][0] = 1 /\ Res[2][0] = 2

PartitionsCall(after_false) ==
    /\ call.op = "rank_partitions"
    /\ call.after_false = after_false
    /\ IsNone(call.reset_by)

\* C5: rank_partitions with default flags gives a False cell 0 and every cell
\* of the j-th maximal run of True cells of a column the value j, so the
\* maximum of a column is its number of runs.
C5_PartitionIndex ==
    PartitionsCall(FALSE) =>
        \A c \in ColIdx :
            /\ \A t \in RowIdx :
                   Res[t][c] = IF obj[t][c]
                               THEN Cardinality({s \in 0 .. t : IsRunStart(obj, s, c)})
                               ELSE 0
            /\ SetMax({Res[t][c] : t \in RowIdx})
                   = Cardinality({s \in RowIdx : IsRunStart(obj, s, c)})

\* A default rank_partitions call on a frame whose column 0 is [T, F, T, ...]:
\* two runs, values 1, 0, 2.
C5_Witness ==
    /\ PartitionsCall(FALSE)
    /\ obj[0][0] /\ ~obj[1][0] /\ obj[2][0]
    /\ Res[0][0] = 1 /\ Res[1][0] = 0 /\ Res[2][0] = 2

\* C6: rank_partitions with after_false=True gives 0 to a run that begins at
\* row 0 and does not count it; the runs after the first False cell are
\* numbered 1, 2, ...; a column that starts with False reads as without the flag.
C6_PartitionAfterFalse ==
    PartitionsCall(TRUE) =>
        LET default == rank_partitions(obj, None, FALSE)
        IN  \A c \in ColIdx :
                /\ \A t \in RowIdx :
                       Res[t][c] = IF obj[t][c]
                                   THEN Cardinality({s \in 1 .. t : IsRunStart(obj, s, c)})
                                   ELSE 0
                /\ ~obj[0][c] => \A t \in RowIdx : Res[t][c] = default[t][c]

\* An after_false rank_partitions call on a frame whose column 0 is
\* [T, F, T, ...]: the leading run reads 0, the next run 1.
C6_Witness ==
    /\ PartitionsCall(TRUE)
    /\ obj[0][0] /\ ~obj[1][0] /\ obj[2][0]
    /\ Res[0][0] = 0 /\ Res[1][0] = 0 /\ Res[2][0] = 1

-----------------------------------------------------------------------------
(* Properties of the stop generators                                       *)

StopCall == call.op \in {"generate_stop_loss", "generate_take_profit"}

\* The price series and the number of configurations of the call.
Ts == Get(call.ts)
NumConfigs == Len(call.stops)
ConfigIdx == 0 .. (NumConfigs - 1)

HasEntry(t, c) == \E s \in 0 .. t : obj[s][c]
\* The most recent entry row of column c at row t.
LastEntry(t, c) == CHOOSE s \in 0 .. t : obj[s][c] /\ \A u \in (s + 1) .. t : ~obj[u][c]
\* Rows s and t of column c lie in the same span: s holds or follows an entry
\* and no entry lies between s (excluded) and t (included).
SameSpan(s, t, c) == HasEntry(s, c) /\ \A u \in (s + 1) .. t : ~obj[u][c]
\* The highest price from row from to row t.
MaxPrice(from, t) == SetMax({Ts[s] : s \in from .. t})

\* Price p (tenths) against reference a (tenths) and stop (hundredths), as the
\* thresholds are stated: a*(1-stop) or a-stop for a loss, a*(1+stop) or a+stop
\* for a profit.
AtOrBelow(relative, p, a, stop) ==
    IF relative THEN p * 100 <= a * (100 - stop) ELSE p * 10 <= a * 10 - stop
AtOrAbove(relative, p, a, stop) ==
    IF relative THEN p * 100 >= a * (100 + stop) ELSE p * 10 >= a * 10 + stop

\* C7: a fixed (not trailing) stop-loss and a take-profit with first=False mark
\* cell (t, k*N + c) exactly when column c has an entry at or above row t and
\* the price of row t is at or beyond the threshold taken from the price at the
\* most recent such entry row.
C7_FixedStopEveryHit ==
    (StopCall /\ ~call.trailing /\ ~call.first) =>
        \A k \in ConfigIdx, c \in ColIdx, t \in RowIdx :
            Res[t][k * N + c] <=>
                /\ HasEntry(t, c)
                /\ IF call.op = "generate_stop_loss"
                   THEN AtOrBelow(call.relative, Ts[t], Ts[LastEntry(t, c)],
                                  call.stops[k + 1])
                   ELSE AtOrAbove(call.relative, Ts[t], Ts[LastEntry(t, c)],
                                  call.stops[k + 1])

\* A relative stop-loss of 0.1 with first=False on a column with one entry at
\* price 2.0 followed by 1.8 and 1.8: both later rows are exits.
C7_Witness ==
    /\ call.op = "generate_stop_loss" /\ ~call.trailing /\ ~call.first /\ call.relative
    /\ call.stops[1] = 10
    /\ obj[0][0] /\ ~obj[1][0] /\ ~obj[2][0]
    /\ Ts[0] = 20 /\ Ts[1] = 18 /\ Ts[2] = 18
    /\ ~Res[0][0] /\ Res[1][0] /\ Res[2][0]

\* The matrix the same call returns with first=False.
EveryHit ==
    IF call.op = "generate_stop_loss"
    THEN generate_stop_loss(obj, Ts, call.stops, call.trailing, call.relative, FALSE).values
    ELSE generate_take_profit(obj, Ts, call.stops, call.relative, FALSE).values

\* C8: with first=True a cell is marked exactly when the first=False output
\* marks it and marks no earlier row of the same span (the rows from an entry
\* row up to the next entry row); so each span holds at most one exit, its
\* earliest.
C8_FirstHitOnly ==
    (StopCall /\ call.first) =>
        LET every == EveryHit
        IN  \A k \in ConfigIdx, c \in ColIdx, t \in RowIdx :
                Res[t][k * N + c] <=>
                    /\ every[t][k * N + c]
                    /\ \A s \in 0 .. (t - 1) :
                           SameSpan(s, t, c) => ~every[s][k * N + c]

\* A relative stop-loss of 0.1 with first=True on a column with one entry at
\* price 2.0 followed by 1.8 and 1.8: only the first of the two hits is marked.
C8_Witness ==
    /\ call.op = "generate_stop_loss" /\ ~call.trailing /\ call.first /\ call.relative
    /\ call.stops[1] = 10
    /\ obj[0][0] /\ ~obj[1][0] /\ ~obj[2][0]
    /\ Ts[0] = 20 /\ Ts[1] = 18 /\ Ts[2] = 18
    /\ ~Res[0][0] /\ Res[1][0] /\ ~Res[2][0]

\* C9: a trailing stop-loss (first=False) marks cell (t, k*N + c) exactly when
\* column c has an entry at or above row t and the price of row t is at or
\* below the threshold taken from the highest price between the most recent
\* entry row and row t, both included.
C9_TrailingStop ==
    (call.op = "generate_stop_loss" /\ call.trailing /\ ~call.first) =>
        \A k \in ConfigIdx, c \in ColIdx, t \in RowIdx :
            Res[t][k * N + c] <=>
                /\ HasEntry(t, c)
                /\ AtOrBelow(call.relative, Ts[t], MaxPrice(LastEntry(t, c), t),
                             call.stops[k + 1])

\* A trailing relative stop-loss of 0.1 on a column with one entry at price 1.8
\* followed by 2.0 and 1.8: the last row is an exit of the trailing stop only
\* (1.8 <= 2.0 * 0.9, while 1.8 > 1.8 * 0.9).
C9_Witness ==
    /\ call.op = "generate_stop_loss" /\ call.trailing /\ ~call.first /\ call.relative
    /\ call.stops[1] = 10
    /\ obj[0][0] /\ ~obj[1][0] /\ ~obj[2][0]
    /\ Ts[0] = 18 /\ Ts[1] = 20 /\ Ts[2] = 18
    /\ ~Res[0][0] /\ ~Res[1][0] /\ Res[2][0]

\* The matrix the same call returns when it is given configuration k alone.
SingleConfig(k) ==
    IF call.op = "generate_stop_loss"
    THEN generate_stop_loss(obj, Ts, <<call.stops[k + 1]>>, call.trailing,
                            call.relative, call.first).values
    ELSE generate_take_profit(obj, Ts, <<call.stops[k + 1]>>, call.relative,
                              call.first).values

\* C10: the output has T rows and K*N columns, and columns k*N .. k*N+N-1 are
\* the exit matrix of a call with stops[k] alone, in the order of stops.
C10_ConfigBlocks ==
    StopCall =>
        /\ DOMAIN Res = RowIdx
        /\ \A t \in RowIdx : DOMAIN Res[t] = 0 .. (NumConfigs * N - 1)
        /\ \A k \in ConfigIdx :
               LET single == SingleConfig(k)
               IN  \A c \in ColIdx, t \in RowIdx :
                       /\ Res[t][k * N + c] = single[t][c]
                       /\ Get(result).columns[k * N + c] = <<call.stops[k + 1], c>>

\* A relative stop-loss with stops [0.2, 0.1] whose two blocks differ: the price
\* falls from 2.0 to 1.8, which reaches the 0.1 stop (block 1) but not the 0.2
\* stop (block 0).
C10_Witness ==
    /\ call.op = "generate_stop_loss" /\ call.relative /\ ~call.trailing
    /\ call.stops = <<20, 10>>
    /\ obj[0][1] /\ Ts[0] = 20 /\ Ts[1] = 18
    /\ ~Res[1][0 * N + 1] /\ Res[1][1 * N + 1]

-----------------------------------------------------------------------------
(* Properties of the range reducer                                         *)

ReduceCall(op) ==
    /\ call.op = op
    /\ ~IsNone(call.map_func_nb)
    /\ ~IsNone(call.reduce_func_nb)

\* What the callbacks of the finished call make of a sequence of spans.
Reduced(c, spans) ==
    LET map_func_nb == IF "map_func_nb" \in DOMAIN call
                       THEN Get(call.map_func_nb) ELSE "distance_map_nb"
        reduce_func_nb == IF "reduce_func_nb" \in DOMAIN call
                          THEN Get(call.reduce_func_nb) ELSE "mean_reduce_nb"
    IN  apply_reduce(reduce_func_nb, c,
                     [k \in 1 .. Len(spans) |->
                         apply_map(map_func_nb, c, spans[k][1], spans[k][2])])

\* The rows of a set in ascending order.
RECURSIVE SortedRows(_)
SortedRows(S) ==
    IF S = {} THEN <<>>
    ELSE LET lo == CHOOSE x \in S : \A y \in S : x <= y
         IN  <<lo>> \o SortedRows(S \ {lo})

TrueRows(m, c) == {t \in DOMAIN m : m[t][c]}

\* The consecutive pairs of True rows of column c, in ascending order.
ConsecutivePairs(m, c) ==
    LET rows == SortedRows(TrueRows(m, c))
    IN  [j \in 1 .. (Len(rows) - 1) |-> <<rows[j], rows[j + 1]>>]

\* avg_distance: the average distance of a column is the span from its first
\* to its last True row over the number of consecutive pairs.
AvgDistanceIsSpanOverPairs ==
    call.op = "avg_distance" =>
        \A c \in ColIdx :
            LET rows == SortedRows(TrueRows(obj, c))
            IN  Res[c] = IF Len(rows) = 0 THEN <<0, 0>>
                         ELSE <<rows[Len(rows)] - rows[1], Len(rows) - 1>>

\* C11: on one matrix the map callback is applied once to every consecutive
\* pair of True rows of a column, in ascending order, and to nothing else; the
\* reduce callback receives exactly those values.  A column with fewer than
\* two True rows reduces the empty sequence and the call does not fail.  The
\* distances of a column sum to its last True row minus its first.
C11_BetweenConsecutivePairs ==
    /\ AvgDistanceIsSpanOverPairs
    /\ (ReduceCall("map_reduce_between") /\ IsNone(call.other)) =>
        /\ "values" \in DOMAIN Get(result)
        /\ \A c \in ColIdx :
            LET rows == SortedRows(TrueRows(obj, c))
            IN  /\ Res[c] = Reduced(c, ConsecutivePairs(obj, c))
                /\ Len(rows) <= 1 => Res[c] = apply_reduce(Get(call.reduce_func_nb), c, <<>>)
                /\ (/\ Len(rows) >= 1
                    /\ Get(call.map_func_nb) = "distance_map_nb"
                    /\ Get(call.reduce_func_nb) = "mean_reduce_nb")
                   => Res[c] = <<rows[Len(rows)] - rows[1], Len(rows) - 1>>

\* Column 0 is [T, F, T] and column 1 holds one True cell: the pair callback
\* saw (0, 2) in column 0 and nothing in column 1.
C11_Witness ==
    /\ ReduceCall("map_reduce_between") /\ IsNone(call.other)
    /\ Get(call.map_func_nb) = "pair_map_nb"
    /\ Get(call.reduce_func_nb) = "digits_reduce_nb"
    /\ obj[0][0] /\ ~obj[1][0] /\ obj[2][0]
    /\ Cardinality(TrueRows(obj, 1)) = 1
    /\ Res[0] = Digits(<<0 * (T + 1) + 2>>)
    /\ Res[1] = 0

\* The matrix the second operand is broadcast to.
Other == broadcast(obj, Get(call.other))

\* The nearest True row of column c of b strictly below row i (T when none).
NextIn(b, c, i) ==
    IF \E j \in DOMAIN b : j > i /\ b[j][c]
    THEN CHOOSE j \in DOMAIN b : j > i /\ b[j][c] /\ \A u \in (i + 1) .. (j - 1) : ~b[u][c]
    ELSE T

\* The True rows of column c of a that have a later True row in b, ascending,
\* each paired with the nearest such row.
PairsWith(a, b, c) ==
    LET rows == SortedRows({i \in TrueRows(a, c) : NextIn(b, c, i) < T})
    IN  [j \in 1 .. Len(rows) |-> <<rows[j], NextIn(b, c, rows[j])>>]

\* C12: with a second matrix the map callback is applied, for every True row i
\* of the object, to (i, j) with j the nearest True row of the second matrix
\* strictly below i in the same column; a True row without such a j gives no
\* pair, and no row is paired with itself.
C12_BetweenTwoNearestLater ==
    (\/ ReduceCall("map_reduce_between") /\ ~IsNone(call.other)
     \/ call.op = "avg_distance_to") =>
        /\ "values" \in DOMAIN Get(result)
        /\ \A c \in ColIdx :
            /\ Res[c] = Reduced(c, PairsWith(obj, Other, c))
            /\ \A k \in DOMAIN PairsWith(obj, Other, c) :
                PairsWith(obj, Other, c)[k][1] < PairsWith(obj, Other, c)[k][2]

\* Column 0 is [T, T, F] against the second operand [T, T, F]: row 0 is paired
\* with row 1, not with itself, and row 1 has no partner.
C12_Witness ==
    /\ ReduceCall("map_reduce_between") /\ ~IsNone(call.other)
    /\ Get(call.map_func_nb) = "pair_map_nb"
    /\ Get(call.reduce_func_nb) = "digits_reduce_nb"
    /\ obj[0][0] /\ obj[1][0] /\ ~obj[2][0]
    /\ Get(call.other)[0] /\ Get(call.other)[1] /\ ~Get(call.other)[2]
    /\ Res[0] = Digits(<<0 * (T + 1) + 1>>)

\* The row one past the maximal run of True cells that starts at row s.
RunEnd(m, s, c) ==
    IF \E u \in DOMAIN m : u > s /\ ~m[u][c]
    THEN CHOOSE u \in DOMAIN m : u > s /\ ~m[u][c] /\ \A v \in s .. (u - 1) : m[v][c]
    ELSE T

\* The maximal runs of True cells of column c from top to bottom, each as
\* (first row, last row + 1).
Runs(m, c) ==
    LET starts == SortedRows({s \in DOMAIN m : IsRunStart(m, s, c)})
    IN  [j \in 1 .. Len(starts) |-> <<starts[j], RunEnd(m, starts[j], c)>>]

\* C13: map_reduce_partitions applies the map callback once per maximal run of
\* True cells, top to bottom, with from_i the first row of the run and to_i its
\* last row plus one; the run lengths of a column sum to its True cells.
C13_PartitionSpans ==
    ReduceCall("map_reduce_partitions") =>
        /\ "values" \in DOMAIN Get(result)
        /\ \A c \in ColIdx :
            /\ Res[c] = Reduced(c, Runs(obj, c))
            /\ (/\ Get(call.map_func_nb) = "distance_map_nb"
                /\ Get(call.reduce_func_nb) = "mean_reduce_nb")
               => Res[c] = <<Cardinality(TrueRows(obj, c)), Len(Runs(obj, c))>>

\* Column 0 is [T, F, T]: the pair callback saw (0, 1) and then (2, T), the
\* second run reaching the last row.
C13_Witness ==
    /\ ReduceCall("map_reduce_partitions")
    /\ Get(call.map_func_nb) = "pair_map_nb"
    /\ Get(call.reduce_func_nb) = "digits_reduce_nb"
    /\ obj[0][0] /\ ~obj[1][0] /\ \A t \in 2 .. (T - 1) : obj[t][0]
    /\ Res[0] = Digits(<<0 * (T + 1) + 1, 2 * (T + 1) + T>>)

-----------------------------------------------------------------------------
(* Properties of the generators                                            *)

\* The columns of the matrices a generate_iteratively call returned.
IterCols == 0 .. (to_2d_shape(call.shape)[2] - 1)

\* The name of callback number fn of the finished generate_iteratively call.
ChoiceOf(fn) == IF fn = 1 THEN call.choice_func1_nb ELSE call.choice_func2_nb

\* Whether cell (i, c) holds an entry or an exit.
SignalAt(out, i, c) == out.entries[i][c] \/ out.exits[i][c]

\* C14: per column the calls alternate choice_fn_1, choice_fn_2, ... beginning
\* with choice_fn_1 at position 0; each call gets from_i = 1 + the largest row
\* the previous call returned and to_i = T.  Hence later calls mark strictly
\* later rows, no cell is both entry and exit, the topmost signal of a column
\* is an entry, and entries and exits alternate when every call returns one row.
C14_IterativeAlternation ==
    call.op = "generate_iteratively" =>
        LET out == Get(result)
        IN  \A c \in IterCols :
            LET trace == out.calls[c]
            IN  /\ Len(trace) >= 1
                /\ trace[1].fn = 1 /\ trace[1].from_i = 0
                /\ \A k \in 1 .. Len(trace) :
                    /\ trace[k].to_i = T
                    /\ trace[k].idxs = apply_choice(ChoiceOf(trace[k].fn), c,
                                                    trace[k].from_i, T)
                    /\ k > 1 =>
                        /\ trace[k].fn = 3 - trace[k - 1].fn
                        /\ trace[k - 1].idxs # {}
                        /\ trace[k].from_i = 1 + SetMax(trace[k - 1].idxs)
                /\ \A i \in RowIdx :
                    /\ out.entries[i][c] <=> \E k \in 1 .. Len(trace) :
                                                trace[k].fn = 1 /\ i \in trace[k].idxs
                    /\ out.exits[i][c] <=> \E k \in 1 .. Len(trace) :
                                              trace[k].fn = 2 /\ i \in trace[k].idxs
                    /\ ~(out.entries[i][c] /\ out.exits[i][c])
                    /\ (SignalAt(out, i, c) /\ \A u \in 0 .. (i - 1) : ~SignalAt(out, u, c))
                       => out.entries[i][c]
                /\ \A k \in 1 .. Len(trace), l \in 1 .. Len(trace) :
                    k < l => \A i \in trace[k].idxs, j \in trace[l].idxs : i < j
                /\ (\A k \in 1 .. Len(trace) : Cardinality(trace[k].idxs) <= 1) =>
                    \A i \in RowIdx, j \in RowIdx :
                        (/\ i < j
                         /\ SignalAt(out, i, c) /\ SignalAt(out, j, c)
                         /\ \A u \in (i + 1) .. (j - 1) : ~SignalAt(out, u, c))
                        => (out.entries[i][c] <=> out.exits[j][c])

\* Both callbacks answer with the first row of their range: entries on rows
\* 0 and 2, an exit on row 1, as many calls as rows.
C14_Witness ==
    /\ call.op = "generate_iteratively"
    /\ call.choice_func1_nb = "first_choice_nb"
    /\ call.choice_func2_nb = "first_choice_nb"
    /\ call.shape = <<T, N>>
    /\ Len(Get(result).calls[0]) = T
    /\ Get(result).entries[0][0] /\ Get(result).exits[1][0] /\ Get(result).entries[2][0]
    /\ ~Get(result).exits[0][0] /\ ~Get(result).entries[1][0]

\* The first True row of column c (T when the column has none).
FirstTrue(m, c) == IF TrueRows(m, c) = {} THEN T ELSE CHOOSE t \in TrueRows(m, c) : \A u \in TrueRows(m, c) : t <= u

\* C15: generate_after hands the choice callback, for every True row i of a
\* column, from_i = i + 1 and to_i = the next True row (T after the last one),
\* and the output is True exactly on the returned rows.  Hence the output is
\* never True where the input is nor at or above the first True row, a column
\* without a True cell stays all False, and the callback that fills its range
\* sets exactly the False cells below the first True cell.
C15_GenerateAfterBounds ==
    call.op = "generate_after" =>
        LET out == Get(result)
        IN  \A c \in ColIdx :
            LET trace == out.calls[c]
                rows == SortedRows(TrueRows(obj, c))
            IN  /\ Len(trace) = Len(rows)
                /\ \A k \in 1 .. Len(rows) :
                    /\ trace[k].from_i = rows[k] + 1
                    /\ trace[k].to_i = IF k < Len(rows) THEN rows[k + 1] ELSE T
                    /\ trace[k].idxs = apply_choice(call.choice_func_nb, c,
                                                    trace[k].from_i, trace[k].to_i)
                /\ \A i \in RowIdx :
                    /\ out.values[i][c] <=> \E k \in 1 .. Len(trace) : i \in trace[k].idxs
                    /\ out.values[i][c] => ~obj[i][c] /\ i > FirstTrue(obj, c)
                    /\ call.choice_func_nb = "fill_choice_nb" =>
                        (out.values[i][c] <=> ~obj[i][c] /\ i > FirstTrue(obj, c))
                /\ rows = <<>> => \A i \in RowIdx : ~out.values[i][c]

\* Filling after [T, F, F] marks rows 1 and 2 and leaves row 0 False, while a
\* column without a True cell stays empty.
C15_Witness ==
    /\ call.op = "generate_after"
    /\ call.choice_func_nb = "fill_choice_nb"
    /\ obj[0][0] /\ ~obj[1][0] /\ ~obj[2][0]
    /\ ~Res[0][0] /\ Res[1][0] /\ Res[2][0]
    /\ TrueRows(obj, 1) = {}
    /\ \A i \in RowIdx : ~Res[i][1]

-----------------------------------------------------------------------------
(* Properties of the random generators                                     *)

RandomDone(op) == call.op = op /\ "values" \in DOMAIN Get(result)

\* The least row distance the min_space argument of the finished call allows.
Gap == IF IsNone(call.min_space) THEN 1 ELSE Get(call.min_space) + 1

Spaced(S, gap) == \A i \in S, j \in S : i < j => j - i >= gap

\* C16: any two True cells of a column of generate_random's output are
\* min_space + 1 or more rows apart (merely distinct rows with min_space None
\* or 0), and the output has the rows 0 .. T-1 only.
C16_MinSpace ==
    RandomDone("generate_random") =>
        /\ DOMAIN Res = RowIdx
        /\ \A c \in ColIdx : Spaced(TrueRows(Res, c), Gap)

\* With min_space = 1 a column received the rows 0 and 2.
C16_Witness ==
    /\ RandomDone("generate_random")
    /\ call.min_space = Some(1)
    /\ \E c \in ColIdx : Res[0][c] /\ ~Res[1][c] /\ Res[2][c]

\* n rows, gap or more apart, fit into the T rows of a column.
Fits(n, gap) == \E S \in SUBSET RowIdx : Cardinality(S) = n /\ Spaced(S, gap)

\* The counts the finished call may draw: the entries of n_range, those of
\* weight 0 left out.
Drawable ==
    {call.n_range[j] : j \in {k \in 1 .. Len(call.n_range) :
                                 IsNone(call.n_prob) \/ Get(call.n_prob)[k] > 0}}

\* C17: the count n of a column of generate_random is an entry of n_range and
\* never one of weight 0; the column holds n True cells when n rows fit under
\* the spacing, and otherwise fewer, placed so that no further row could be
\* set without breaking the spacing; the call does not fail.
C17_CountRule ==
    (call.op = "generate_random" /\ same_shape(call.n_range, call.n_prob)) =>
        /\ "values" \in DOMAIN Get(result)
        /\ \A c \in ColIdx :
            LET n == Get(result).calls[c + 1].n
                rows == TrueRows(Res, c)
            IN  /\ n \in Drawable
                /\ Fits(n, Gap) => Cardinality(rows) = n
                /\ ~Fits(n, Gap) =>
                    /\ Cardinality(rows) < n
                    /\ \A r \in RowIdx \ rows : ~Spaced(rows \cup {r}, Gap)

\* Three signals were drawn for a column where min_space = 1 leaves room for
\* fewer: the column holds two.
C17_Witness ==
    /\ RandomDone("generate_random")
    /\ call.min_space = Some(1)
    /\ \E c \in ColIdx :
        /\ Get(result).calls[c + 1].n = 3
        /\ ~Fits(3, 2)
        /\ Cardinality(TrueRows(Res, c)) = 2

-----------------------------------------------------------------------------
(* Properties of the combinators and of the derived predicates             *)

\* The elementwise operator of the finished combinator call.
Op(x, y) ==
    IF call.op = "AND" THEN x /\ y
    ELSE IF call.op = "OR" THEN x \/ y
    ELSE x # y

\* The finished combinator called again on a matrix a with other operands.
Combined(a, others) ==
    (IF call.op = "AND" THEN AND(a, others, FALSE)
     ELSE IF call.op = "OR" THEN OR(a, others, FALSE)
     ELSE XOR(a, others, FALSE)).values

\* C19: without concat AND, OR and XOR return the left-to-right fold of the
\* elementwise operator over the object and the operands; with two operands
\* b and c the result is the same cell by cell however the three are grouped
\* or ordered.
C19_CombineFold ==
    (call.op \in {"AND", "OR", "XOR"} /\ ~call.concat) =>
        LET b == call.others[1]
            c == call.others[2]
        IN  /\ Len(call.others) = 0 => Res = obj
            /\ Len(call.others) = 1 =>
                \A i \in RowIdx, col \in ColIdx : Res[i][col] = Op(obj[i][col], b[i])
            /\ Len(call.others) = 2 =>
                /\ \A i \in RowIdx, col \in ColIdx :
                    /\ Res[i][col] = Op(Op(obj[i][col], b[i]), c[i])
                    /\ Res[i][col] = Op(obj[i][col], Op(b[i], c[i]))
                    /\ Res[i][col] = Op(Op(c[i], obj[i][col]), b[i])
                /\ Res = Combined(Combined(obj, <<b>>), <<c>>)
                /\ Res = Combined(obj, <<[i \in RowIdx |-> Op(b[i], c[i])]>>)
                /\ Res = Combined(obj, <<c, b>>)

\* XOR of a True cell with the operands True and False gives False, and AND
\* of three operands is True on a row where all three are.
C19_Witness ==
    /\ call.op \in {"AND", "XOR"} /\ ~call.concat
    /\ Len(call.others) = 2
    /\ obj[0][0] /\ call.others[1][0] /\ ~call.others[2][0]
    /\ obj[1][0] /\ call.others[1][1] /\ call.others[2][1]
    /\ Res[0][0] = FALSE
    /\ Res[1][0] = (call.op = "AND")

DerivedCall == call.op \in {"first", "nst", "from_nst"}

\* The matrices nst(k) of the finished call's object and keyword arguments
\* for k = n .. T, as a tuple.
RECURSIVE NstFrom(_)
NstFrom(n) ==
    IF n > T THEN <<>>
    ELSE <<nst(obj, n, call.reset_by, call.after_false, call.allow_gaps).values>>
         \o NstFrom(n + 1)

\* C20: first, nst(n) and from_nst(n) are rank == 1, rank == n and rank >= n
\* cell by cell, rank being called with the same keyword arguments.  Hence
\* first is nst(1), from_nst(n) is the union of nst(k) over k >= n, a derived
\* matrix with n >= 1 is True only where the object is, and with default flags
\* first marks the first cell of every maximal run of True cells while
\* from_nst(1) is the object itself.
C20_DerivedFromRank ==
    DerivedCall =>
        LET ranked == rank(obj, call.reset_by, call.after_false, call.allow_gaps)
            later == NstFrom(call.n)
            default == IsNone(call.reset_by) /\ ~call.after_false /\ ~call.allow_gaps
            res == Res
        IN  /\ call.op = "first" =>
                /\ res = later[1]
                /\ \A i \in RowIdx, c \in ColIdx :
                    /\ res[i][c] = (ranked[i][c] = 1)
                    /\ default => (res[i][c] <=> IsRunStart(obj, i, c))
            /\ call.op = "nst" =>
                \A i \in RowIdx, c \in ColIdx : res[i][c] = (ranked[i][c] = call.n)
            /\ call.op = "from_nst" =>
                \A i \in RowIdx, c \in ColIdx :
                    /\ res[i][c] = (ranked[i][c] >= call.n)
                    /\ res[i][c] <=> \E k \in 1 .. Len(later) : later[k][i][c]
                    /\ (default /\ call.n = 1) => res[i][c] = obj[i][c]
            /\ call.n >= 1 => \A i \in RowIdx, c \in ColIdx : res[i][c] => obj[i][c]

\* first with default flags on a column [T, T, F]: only row 0 is marked,
\* while the second row has rank 2.
C20_Witness ==
    /\ call.op = "first"
    /\ IsNone(call.reset_by) /\ ~call.after_false /\ ~call.allow_gaps
    /\ obj[0][0] /\ obj[1][0] /\ ~obj[2][0]
    /\ Res[0][0] /\ ~Res[1][0] /\ ~Res[2][0]

-----------------------------------------------------------------------------
(* Properties of the checks that open a call                               *)

\* A call of one of the range reducers has finished.
ReducerDone == call.op \in {"map_reduce_between", "map_reduce_partitions"}

CallbackMissing == IsNone(call.map_func_nb) \/ IsNone(call.reduce_func_nb)

\* The positions of the steps of the finished call that are events of kind ev.
StepsOf(ev) == {k \in 1 .. Len(call.steps) : call.steps[k].ev = ev}

\* C21: map_reduce_between (with and without a second matrix) and
\* map_reduce_partitions called without map_func_nb or without reduce_func_nb
\* fail before anything is broadcast, before a kernel scans a column or calls
\* a callback; the error is raised once for the call, it is the last thing
\* the call does, and the caller gets the error and no values.  A call given
\* both callbacks passes the four checks and scans every column.
C21_MissingCallbackFailsFirst ==
    ReducerDone =>
        IF CallbackMissing
        THEN /\ StepsOf("broadcast") = {}
             /\ StepsOf("kernel") = {}
             /\ StepsOf("return") = {}
             /\ StepsOf("raise") = {Len(call.steps)}
             /\ call.steps[Len(call.steps)].check = "assert_not_none"
             /\ Get(result) = AssertionError
             /\ "values" \notin DOMAIN Get(result)
        ELSE /\ \A k \in 1 .. 4 : call.steps[k].ev = "check"
             /\ \A k \in StepsOf("kernel") :
                    /\ k > 4
                    /\ DOMAIN call.steps[k].map_calls = DOMAIN obj.values[0]
             /\ (IsNone(call.other) => StepsOf("kernel") # {} /\ StepsOf("raise") = {})

\* A frame with signals in both columns, a second matrix given and the reduce
\* callback left out: the call ended in the one error.
C21_Witness ==
    /\ call.op = "map_reduce_between"
    /\ ~IsNone(call.other)
    /\ ~IsNone(call.map_func_nb)
    /\ IsNone(call.reduce_func_nb)
    /\ NCols(obj.values) = N
    /\ \A c \in ColIdx : \E t \in RowIdx : obj.values[t][c]
    /\ Get(result) = AssertionError


\* The kernel runs among the steps of the finished call.
KernelRuns == {call.steps[k] : k \in StepsOf("kernel")}

\* C22: signal inputs are boolean or rejected, never read for their
\* truthiness.  The accessor is built exactly over objects of dtype bool, and
\* then over the object as it is; over any other dtype the construction
\* fails, so that every method call is made on a boolean object and every
\* kernel scans that object's own cells.  A second operand of map_reduce_between
\* of another dtype ends the call in an error after the broadcast and before
\* any kernel runs.
C22_BooleanOrRejected ==
    /\ call.op = "__init__" =>
          IF obj.dtype = "bool"
          THEN Get(result) = [_obj |-> obj]
          ELSE Get(result) = AssertionError
    /\ ReducerDone =>
          /\ obj.dtype = "bool"
          /\ \A run \in KernelRuns : run.a = obj.values
          /\ (IF IsNone(call.other) THEN FALSE ELSE Get(call.other).dtype # "bool") =>
                /\ KernelRuns = {}
                /\ Get(result) = AssertionError
                /\ (~CallbackMissing =>
                        /\ call.steps[Len(call.steps)].check = "assert_dtype"
                        /\ StepsOf("broadcast") = {Len(call.steps) - 1})

\* A second operand of integers with a 1 in it, handed over with both
\* callbacks to the accessor of a frame with signals: the call was rejected.
C22_Witness ==
    /\ call.op = "map_reduce_between"
    /\ ~CallbackMissing
    /\ ~IsNone(call.other)
    /\ (IF IsNone(call.other) THEN FALSE
        ELSE /\ Get(call.other).dtype = "int64"
             /\ \E t \in RowIdx : Get(call.other).values[t][0] = 1)
    /\ \E t \in RowIdx : obj.values[t][0]
    /\ Get(result) = AssertionError


-----------------------------------------------------------------------------
(* Properties of the broadcast in map_reduce_between                       *)

\* The shape the object and the second operand of the finished call have in
\* common once they are broadcast.
CommonShape ==
    <<T, Max2(NCols(obj.values), NCols(Get(call.other).values))>>

\* C26: in map_reduce_between with a second operand, the two matrices a
\* kernel scans together have the same shape, the common shape of the object
\* and the operand after broadcasting, also when it is the object that has to
\* be repeated along the columns.
C26_ScannedShapesAgree ==
    (IF call.op = "map_reduce_between" THEN ~IsNone(call.other) ELSE FALSE) =>
        \A run \in KernelRuns :
            /\ shape_of(run.a) = shape_of(Get(run.b))
            /\ shape_of(run.a) = CommonShape


-----------------------------------------------------------------------------
(* Properties of generate                                                  *)

\* The array the callback of the finished call returned for column c.
ChosenBy(c) ==
    choice_array(call.choice_func_nb, c, 0, to_2d_shape(call.shape)[1])

\* The callback of the finished call broke the contract in some column.
ContractBroken ==
    \E c \in 0 .. (to_2d_shape(call.shape)[2] - 1) :
        \/ \E k \in 1 .. Len(ChosenBy(c)) : ChosenBy(c)[k] < 0 \/ ChosenBy(c)[k] >= T
        \/ \E k \in 1 .. Len(ChosenBy(c)), l \in 1 .. Len(ChosenBy(c)) :
               k < l /\ ChosenBy(c)[k] = ChosenBy(c)[l]

-----------------------------------------------------------------------------
(* Properties of the caller's arrays                                       *)

-----------------------------------------------------------------------------
(* Properties of random calls in flight at once                            *)

\* The matrix call p returns when it is the only call made, for an entropy
\* of the system.
Alone(p, entropy) ==
    IF call.runs[p].op = "generate_random"
    THEN generate_random(<<T, N>>, <<1, 2>>, None, None, Some(call.runs[p].seed), entropy).result.values
    ELSE generate_random_after(obj, <<1, 2>>, None, None, Some(call.runs[p].seed), entropy).result.values

-----------------------------------------------------------------------------
(* Properties of rank reset by a frame                                     *)

\* C29: rank reset by the inverted object with allow_gaps on (after_false
\* off) gives, cell for cell, what rank gives with default arguments: a reset
\* on every False cell stands for the reset on False that gaps switch off.
C29_ResetByInvertedIsDefault ==
    (RankCall(FALSE, TRUE) /\ call.reset_by = Some(invert(obj))) =>
        Res = rank(obj, None, FALSE, FALSE)

\* A rank call reset by the inverted object with allow_gaps on, on a frame
\* whose column 0 is [T, F, T, ...]: the last of these cells gets rank 1,
\* where allow_gaps alone gives it rank 2.
C29_Witness ==
    /\ RankCall(FALSE, TRUE)
    /\ call.reset_by = Some(invert(obj))
    /\ obj[0][0] /\ ~obj[1][0] /\ obj[2][0]
    /\ Res[2][0] = 1
    /\ rank(obj, None, FALSE, TRUE)[2][0] = 2


-----------------------------------------------------------------------------
(* Properties of generate_iteratively, call by call                        *)

\* The calls of a trace that returned rows.
IndexCalls(trace) == {k \in 1 .. Len(trace) : trace[k].idxs # {}}

\* A trace of one column: at most T calls returned rows, each call begins
\* strictly below the call before it, which returned rows.
BoundedTrace(trace) ==
    /\ Cardinality(IndexCalls(trace)) <= T
    /\ \A k \in 2 .. Len(trace) :
        /\ trace[k - 1].idxs # {}
        /\ trace[k].from_i > trace[k - 1].from_i

\* The trace of a column that ended: its last call returned nothing or moved
\* the position to T or beyond.
EndedTrace(trace) ==
    /\ BoundedTrace(trace)
    /\ \/ trace = <<>>
       \/ trace[Len(trace)].idxs = {}
       \/ next_pos(trace[Len(trace)].idxs) >= T

IterativelyBounded ==
    call.op = "generate_iteratively_nb" =>
        /\ call.pos <= T
        /\ BoundedTrace(call.trace)
        /\ \A k \in 1 .. Len(call.trace) : call.trace[k].idxs # {}
        /\ Len(call.calls) = IF call.pc = "returned" THEN call.shape[2] ELSE call.col
        /\ \A c \in 1 .. Len(call.calls) :
            /\ EndedTrace(call.calls[c])
            /\ call.calls[c] = iteratively_loop(T, call.choice_func1_nb,
                                                call.choice_func2_nb, c - 1, 0, 1)
        /\ call.pc = "returned" => DOMAIN Get(result) = {"entries", "exits"}

\* C30: generate_iteratively terminates.  A column ends when its position
\* reaches T or a callback returns no row, which is no error; every call that
\* returns rows moves the position strictly down the column, so a column has
\* at most T of them; a column that ended leaves the columns after it to be
\* generated as they are alone; and the call returns its two matrices.
C30_IterativelyTerminates ==
    []IterativelyBounded /\ <>[](call.pc = "returned")

\* choice_func2_nb returns nothing: column 0 ended on its second call, and the
\* last column was generated all the same, with its entry on row 0.
C30_Witness ==
    /\ call.op = "generate_iteratively_nb"
    /\ call.pc = "returned"
    /\ call.shape = <<T, N>>
    /\ call.choice_func1_nb = "first_choice_nb"
    /\ call.choice_func2_nb = "no_choice_nb"
    /\ Len(call.calls[1]) = 2 /\ call.calls[1][2].idxs = {}
    /\ Len(call.calls[N]) = 2
    /\ Get(result).entries[0][N - 1]
    /\ \A i \in RowIdx : ~Get(result).exits[i][N - 1]


-----------------------------------------------------------------------------
(* Properties of Data.update                                               *)

-----------------------------------------------------------------------------
(* Properties of DataUpdater                                               *)

\* The data after k updates, one after another.
RECURSIVE UpdatedTimes(_, _)
UpdatedTimes(data, k) == IF k = 0 THEN data ELSE UpdatedTimes(Data_update(data, 1), k - 1)

=============================================================================
